---- MODULE Spec2Model ----
(***************************************************************************)
(* Payment orchestrator: the proxy lambda's processPayment (idempotency    *)
(* gate, provider adapters, response normaliser) and the circuit breaker   *)
(* of shared/utils/circuit-breaker.js, over the two DynamoDB tables they   *)
(* share, and the worker lambda's batch handler with the delivery engine   *)
(* of worker/service.js, and the webhook receiver that feeds the worker's  *)
(* queue.  Every Lambda invocation is a process; processes interleave at   *)
(* their awaits (store reads and writes, HTTP calls, queue sends, sleeps). *)
(***************************************************************************)
EXTENDS Integers, Sequences, FiniteSets, TLC

\* ---------------------------------------------------------------- bounds
NumReq == 2
NumTenants == 2
NumKeys == 1
MaxTicks == 1
NumCallers == 1
MaxRecorded == 6
MaxBatch == 2
NumCaught == 2
NumWebhooks == 2

\* ------------------------------------------------------ program constants
IDEMPOTENCY_TTL_SECONDS == 24 * 60 * 60
FAILURE_THRESHOLD == 5
MONITOR_WINDOW_SECONDS == 300
MAX_RETRIES == 3

\* JavaScript undefined (of a string) and the missing value of a tenant or key
Undefined == "undefined"
None == "none"
Missing == 0

Catches == 1..NumCaught
Webhooks == 1..NumWebhooks
Requests == 1..NumReq
Tenants == 1..NumTenants
Keys == 1..NumKeys
Callers == 1..NumCallers
\* callers enough for two recordFailure calls to overlap
Racers == 1..(NumCallers + 1)
TK == Tenants \X Keys

GATEWAY_NAMES == {"efi", "stripe"}

isValidGateway(gateway) == gateway \in GATEWAY_NAMES

\* validators.required: null, undefined and '' are rejected
required(value) == value # Missing

\* ------------------------------------------------------------------ JSON
\* An object is a function from field names to string values; a field whose
\* value is undefined is present in the object and absent from its JSON text.
FieldOrder == <<"id", "gateway", "gateway_id", "status", "payment_type", "txid">>

RECURSIVE StringifyFrom(_, _)
StringifyFrom(obj, i) ==
  IF i > Len(FieldOrder) THEN <<>>
  ELSE LET k == FieldOrder[i] IN
       IF k \in DOMAIN obj /\ obj[k] # Undefined
       THEN <<(<<k, obj[k]>>)>> \o StringifyFrom(obj, i + 1)
       ELSE StringifyFrom(obj, i + 1)

\* JSON.stringify: the fields in insertion order, undefined ones dropped
JSONstringify(obj) == StringifyFrom(obj, 1)

\* JSON.parse: an object with exactly the fields of the text
JSONparse(text) ==
  [k \in {text[i][1] : i \in DOMAIN text} |->
     (CHOOSE p \in {text[i] : i \in DOMAIN text} : p[1] = k)[2]]

\* ------------------------------------------------------- payment payloads
\* A request body: missing, not JSON, or the JSON text of a payload
ValidPayload == [kind |-> "json", amount |-> 100, currency |-> "BRL"]
Payloads ==
  { ValidPayload,
    [kind |-> "json", amount |-> 0, currency |-> "BRL"] }
NoPayload == [kind |-> "missing", amount |-> 0, currency |-> ""]

\* validatePaymentRequest: amounts are in cents here, 0.01 .. 999999.99
validatePaymentRequest(payload) ==
  /\ payload.amount >= 1 /\ payload.amount <= 99999999
  /\ payload.currency \in {"BRL", "USD", "EUR"}

Bodies == {NoPayload, [kind |-> "malformed", amount |-> 0, currency |-> ""]} \cup Payloads

\* The events the API gateway can hand over: the well-formed ones, and
\* well-formed ones with one part missing or wrong
\* The gateway the Lambda authorizer injects is the tenant's configured one
ActiveGateway(tenantId) == IF tenantId % 2 = 1 THEN "efi" ELSE "stripe"

GoodEvents ==
  { [ idempotencyKey |-> k, authorizer |-> TRUE, tenantId |-> t,
      activeGateway |-> ActiveGateway(t), body |-> b ] :
    k \in Keys, t \in Tenants, b \in Payloads }

Events ==
  GoodEvents
    \cup {[e EXCEPT !.idempotencyKey = Missing] : e \in GoodEvents}
    \cup {[e EXCEPT !.authorizer = FALSE] : e \in GoodEvents}
    \cup {[e EXCEPT !.tenantId = Missing] : e \in GoodEvents}
    \cup {[e EXCEPT !.activeGateway = g] : e \in GoodEvents, g \in {"paypal", Undefined}}
    \cup {[e EXCEPT !.body = b] : e \in GoodEvents, b \in Bodies \ Payloads}

\* extractAndValidateInput: TRUE iff it returns instead of throwing
extractAndValidateInput(event) ==
  /\ required(event.idempotencyKey)
  /\ event.authorizer
  /\ required(event.tenantId)
  /\ event.activeGateway # Undefined
  /\ isValidGateway(event.activeGateway)
  /\ event.body.kind = "json"

\* ------------------------------------------------------------- responses
\* createErrorResponse
ErrorStatus(name) ==
  CASE name = "ValidationError" -> 400
    [] name = "IdempotencyError" -> 409
    [] name = "AuthenticationError" -> 401
    [] name = "GatewayError" -> 502
    [] name = "TimeoutError" -> 502
    [] name = "CircuitBreakerError" -> 503
    [] OTHER -> 500

\* the subclasses of PaymentError
PaymentErrorNames ==
  {"ValidationError", "IdempotencyError", "AuthenticationError", "GatewayError",
   "TimeoutError", "CircuitBreakerError"}

createErrorResponse(name) ==
  IF name \in PaymentErrorNames
  THEN [statusCode |-> ErrorStatus(name), body |-> <<(<<"error", name>>)>>]
  ELSE [statusCode |-> 500, body |-> <<(<<"error", "InternalServerError">>)>>]

NoResult == [statusCode |-> 0, body |-> <<>>]

\* --------------------------------------------------------- error objects
\* An error object with its own properties; a property the object does not have
\* is Undefined (statusCode: Missing). payment: error instanceof PaymentError
PlainError(name, message, stack, statusCode) ==
  [payment |-> FALSE, name |-> name, message |-> message, stack |-> stack,
   code |-> Undefined, statusCode |-> statusCode, timestamp |-> Undefined,
   details |-> Undefined, cachedResponse |-> Undefined, gateway |-> Undefined,
   originalError |-> Undefined, retryable |-> Undefined, timeout |-> Undefined]

\* new PaymentError(message, code, statusCode) at time clock
PaymentError(message, code, statusCode, stack, clock) ==
  [PlainError("PaymentError", message, stack, statusCode) EXCEPT
     !.payment = TRUE, !.code = code, !.timestamp = clock]

ValidationError(message, details, stack, clock) ==
  [PaymentError(message, "VALIDATION_ERROR", 400, stack, clock) EXCEPT
     !.name = "ValidationError", !.details = details]

IdempotencyError(message, cachedResponse, stack, clock) ==
  [PaymentError(message, "IDEMPOTENCY_ERROR", 409, stack, clock) EXCEPT
     !.name = "IdempotencyError", !.cachedResponse = cachedResponse]

AuthenticationError(message, stack, clock) ==
  [PaymentError(message, "AUTHENTICATION_ERROR", 401, stack, clock) EXCEPT
     !.name = "AuthenticationError"]

\* originalError: originalError?.message || null
GatewayError(message, gateway, originalError, stack, clock) ==
  [PaymentError(message, "GATEWAY_ERROR", 502, stack, clock) EXCEPT
     !.name = "GatewayError", !.gateway = gateway,
     !.originalError = IF originalError = Undefined THEN "null" ELSE originalError,
     !.retryable = "true"]

TimeoutError(gateway, timeout, stack, clock) ==
  [GatewayError("Request to " \o gateway \o " timed out after " \o timeout \o "ms",
                gateway, Undefined, stack, clock) EXCEPT
     !.name = "TimeoutError", !.timeout = timeout]

\* a plausible slip: the statusCode of GatewayError is kept
CircuitBreakerError_NoOverride(gateway, stack, clock) ==
  [GatewayError("Circuit breaker open for gateway: " \o gateway,
                gateway, Undefined, stack, clock) EXCEPT
     !.name = "CircuitBreakerError"]

CircuitBreakerError(gateway, stack, clock) ==
  [GatewayError("Circuit breaker open for gateway: " \o gateway,
                gateway, Undefined, stack, clock) EXCEPT
     !.name = "CircuitBreakerError", !.statusCode = 503]

\* toJSON of PaymentError and the overrides of ValidationError and GatewayError,
\* as the list of the object's properties in their order
toJSON(error) ==
  LET base == << <<"error", error.name>>, <<"message", error.message>>,
                 <<"code", error.code>>, <<"timestamp", error.timestamp>> >> IN
  CASE error.name = "ValidationError" -> base \o << <<"details", error.details>> >>
    [] error.name \in {"GatewayError", "TimeoutError", "CircuitBreakerError"} ->
         base \o << <<"gateway", error.gateway>>, <<"retryable", error.retryable>> >>
    [] OTHER -> base

\* JSON.stringify of such an object: a property whose value is undefined is left out
StringifyProperties(properties) ==
  LET Defined(property) == property[2] # Undefined IN SelectSeq(properties, Defined)

\* a plausible slip: the generic body echoes the message of the error
ErrorResponse_EchoMessage(error) ==
  IF error.payment
  THEN [statusCode |-> error.statusCode, body |-> StringifyProperties(toJSON(error))]
  ELSE [statusCode |-> 500,
        body |-> StringifyProperties(<< <<"error", "InternalServerError">>,
                                        <<"message", error.message>>,
                                        <<"code", "INTERNAL_ERROR">> >>)]

\* createErrorResponse applied to an error object, with the whole body
ErrorResponse(error) ==
  IF error.payment
  THEN [statusCode |-> error.statusCode, body |-> StringifyProperties(toJSON(error))]
  ELSE [statusCode |-> 500,
        body |-> StringifyProperties(<< <<"error", "InternalServerError">>,
                                        <<"message", "An unexpected error occurred">>,
                                        <<"code", "INTERNAL_ERROR">> >>)]

NoCaught == PlainError(None, Undefined, Undefined, Missing)

Stacks == {"at processPayment (service.js:40:11)", "at handler (index.js:120:5)"}

\* the errors a handler's catch can receive, constructed at time clock
Errors(clock) ==
  UNION { {ValidationError("Idempotency-Key header is required", "{}", stack, clock),
           ValidationError("Invalid gateway", "{field,allowed}", stack, clock),
           ValidationError("Invalid JSON in request body", "{error}", stack, clock),
           IdempotencyError("Idempotency key conflict", "{orchestration_id}", stack, clock),
           AuthenticationError("Authorization context is required", stack, clock),
           GatewayError("Gateway returned status 500", "efi",
                        "Request failed with status code 500", stack, clock),
           GatewayError("socket hang up", "efi", "socket hang up", stack, clock),
           GatewayError("Unknown failure", "stripe", Undefined, stack, clock),
           TimeoutError("efi", "30000", stack, clock),
           CircuitBreakerError("efi", stack, clock),
           PlainError("Error", "Unknown gateway", stack, Missing),
           PlainError("TypeError", "Cannot read properties of undefined", stack, Missing),
           PlainError("ConditionalCheckFailedException", "The conditional request failed",
                      stack, 400),
           PlainError("ValidationError", "amount must be a number", stack, Missing)}
        : stack \in Stacks }

\* Provider-native results of one adapter call
EFIResults ==
  { [txid |-> Undefined, id |-> "efi1", status |-> "ATIVA"],
    [txid |-> Undefined, id |-> Undefined, status |-> "ATIVA"] }

StripeResults ==
  { [txid |-> Undefined, id |-> "pi1", status |-> "requires_payment_method"] }

ProviderResults(gateway) == IF gateway = "efi" THEN EFIResults ELSE StripeResults

\* The transport failures an adapter's handleError classifies
AdapterFailures(gateway) ==
  IF gateway = "efi" THEN {"ECONNABORTED", "response", "other"} ELSE {}

handleError(failure) == IF failure = "ECONNABORTED" THEN "TimeoutError" ELSE "GatewayError"

\* a plausible slip: only the status of the result is required
validateEFIResponse_OnlyStatus(response) == response.status # Undefined

validateEFIResponse(response) == ~(response.txid = Undefined /\ response.id = Undefined)

validateStripeResponse(response) == response.id # Undefined /\ response.status # Undefined

\* the properties every object literal inherits from Object.prototype: a lookup
\* table[key] with such a key finds the inherited member, which is truthy
ObjectPrototypeProperties ==
  {"constructor", "toString", "toLocaleString", "valueOf", "hasOwnProperty",
   "isPrototypeOf", "propertyIsEnumerable", "__proto__"}

Inherited(property) == "Object.prototype." \o property

normalizeStripeStatus(s) ==
  CASE s \in {"requires_payment_method", "requires_confirmation", "requires_action"} -> "pending"
    [] s = "processing" -> "processing"
    [] s = "requires_capture" -> "authorized"
    [] s = "canceled" -> "canceled"
    [] s = "succeeded" -> "completed"
    [] s \in ObjectPrototypeProperties -> Inherited(s)
    [] OTHER -> "unknown"

\* a plausible slip: the default branch falls through to the Stripe branch
normalizeValid_DefaultStripe(gateway, response) ==
  CASE gateway = "efi" -> validateEFIResponse(response)
    [] OTHER -> validateStripeResponse(response)

\* normalizeGatewayResponse: TRUE iff it returns instead of throwing
normalizeValid(gateway, response) ==
  CASE gateway = "efi" -> validateEFIResponse(response)
    [] gateway = "stripe" -> validateStripeResponse(response)
    [] OTHER -> FALSE

\* normalizeGatewayResponse; orchId stands for generateOrchestrationId()
normalizeGatewayResponse(gateway, response, orchId) ==
  IF gateway = "efi"
  THEN [ id |-> orchId, gateway |-> "efi",
         gateway_id |-> IF response.txid # Undefined THEN response.txid ELSE response.id,
         status |-> response.status, payment_type |-> "pix", txid |-> response.txid ]
  ELSE [ id |-> orchId, gateway |-> "stripe", gateway_id |-> response.id,
         status |-> normalizeStripeStatus(response.status), payment_type |-> "card" ]

\* generateOrchestrationId: unique per call
generateOrchestrationId(r) == ToString(r)

\* what a caller can hand to normalizeGatewayResponse: a gateway name, known or
\* not, and a provider-native result
ResponseInputs ==
  LET results == EFIResults \cup StripeResults \cup
                 { [txid |-> "tx1", id |-> Undefined, status |-> "ATIVA"],
                   [txid |-> Undefined, id |-> Undefined, status |-> "succeeded"],
                   [txid |-> Undefined, id |-> "pi1", status |-> Undefined] } IN
  { [gateway |-> g, response |-> response] :
    g \in GATEWAY_NAMES \cup {"paypal", "EFI", Undefined}, response \in results }

\* ------------------------------------------------------ webhook payloads
NoAmount == -1

\* one entry of the pix array of an EFI webhook
PixRecord(txid, horario, clientId) ==
  [txid |-> txid, valor |-> 1000, horario |-> horario, clientId |-> clientId]

NoObject == [id |-> Undefined, status |-> Undefined, amount |-> NoAmount, clientId |-> Undefined]

\* the payload field of a queue message: an EFI one has pix, a Stripe one
\* has type, id and data.object
EFIPayload(pix) ==
  [hasPix |-> TRUE, pix |-> pix, type |-> Undefined, id |-> Undefined,
   hasObject |-> FALSE, object |-> NoObject]

StripePayload(type, hasObject, clientId) ==
  [hasPix |-> FALSE, pix |-> <<>>, type |-> type, id |-> "evt_1",
   hasObject |-> hasObject,
   object |-> IF hasObject
              THEN [id |-> "pi_1", status |-> "succeeded", amount |-> 1000, clientId |-> clientId]
              ELSE NoObject]

\* data.object of a Stripe event
StripeObject(id, status) ==
  [id |-> id, status |-> status, amount |-> 1000, clientId |-> Undefined]

\* a Stripe event with the given data.object
StripeEvent(type, object) ==
  [StripePayload(type, TRUE, Undefined) EXCEPT !.object = object]

\* values of data.object.status: the ones Stripe documents, one it does not,
\* the name of an inherited property, and none
StripeStatuses ==
  {"succeeded", "processing", "requires_action", "requires_capture",
   "requires_confirmation", "requires_payment_method", "canceled",
   "refunded", "constructor", Undefined}

NoWebhookPayload ==
  [hasPix |-> FALSE, pix |-> <<>>, type |-> Undefined, id |-> Undefined,
   hasObject |-> FALSE, object |-> NoObject]

\* record.body: JSON text of {gateway, payload, receivedAt}, or text JSON.parse rejects
MessageBodies ==
  { [kind |-> "json", gateway |-> "efi",
     payload |-> EFIPayload(<<PixRecord("tx1", "2024-02-26T10:30:00Z", "client_1")>>)],
    [kind |-> "json", gateway |-> "efi",
     payload |-> EFIPayload(<<PixRecord("tx1", Undefined, Undefined)>>)],
    [kind |-> "json", gateway |-> "efi", payload |-> EFIPayload(<<>>)],
    [kind |-> "json", gateway |-> "efi",
     payload |-> EFIPayload(<<PixRecord(Undefined, Undefined, "client_1")>>)],
    [kind |-> "json", gateway |-> "stripe",
     payload |-> StripePayload("payment_intent.succeeded", TRUE, "client_1")],
    [kind |-> "json", gateway |-> "stripe",
     payload |-> StripePayload(Undefined, TRUE, "client_1")],
    [kind |-> "json", gateway |-> "paypal",
     payload |-> StripePayload("payment_intent.succeeded", TRUE, "client_1")],
    [kind |-> "malformed", gateway |-> Undefined, payload |-> NoWebhookPayload] }

\* an API Gateway event of the webhook receiver: pathParameters?.gateway, body
\* (JSON text of a payload, the text null, text JSON.parse rejects, or none) and
\* whether it carries headers
WebhookEvent(gateway, kind, payload, hasHeaders) ==
  [gateway |-> gateway, body |-> [kind |-> kind, payload |-> payload],
   hasHeaders |-> hasHeaders]

NoWebhookEvent == WebhookEvent(None, "missing", NoWebhookPayload, FALSE)

WebhookEvents ==
  LET pix == EFIPayload(<<PixRecord("tx1", "2024-02-26T10:30:00Z", "client_1")>>)
      intent == StripePayload("payment_intent.succeeded", TRUE, "client_1") IN
  { WebhookEvent(gateway, "json", payload, TRUE) :
      gateway \in {"efi", "stripe", "paypal", Undefined},
      payload \in {pix, intent, NoWebhookPayload} }
  \cup { WebhookEvent(gateway, kind, NoWebhookPayload, TRUE) :
           gateway \in {"efi", "paypal"}, kind \in {"null", "malformed", "missing"} }
  \cup { WebhookEvent("efi", "json", pix, FALSE) }

\* the message of the webhook queue
NoMessage == [gateway |-> None, payload |-> NoWebhookPayload, receivedAt |-> Undefined]

\* the ways sqs.send rejects, and whether the queue has taken the message all the same
SendFailures ==
  { [message |-> "WEBHOOK_QUEUE_URL environment variable is not set", landed |-> FALSE],
    [message |-> "AccessDenied", landed |-> FALSE],
    [message |-> "socket timed out", landed |-> FALSE],
    [message |-> "socket timed out", landed |-> TRUE] }

\* what a caller can hand to normalizeWebhookFromGateway: a gateway name, known
\* or not, and a payload
WebhookInputs ==
  LET succeeded == "payment_intent.succeeded" IN
  { [gateway |-> m.gateway, payload |-> m.payload] : m \in {b \in MessageBodies : b.kind = "json"} }
  \cup { [gateway |-> "stripe", payload |-> StripeEvent(succeeded, StripeObject("pi_1", status))] :
          status \in StripeStatuses }
  \cup { [gateway |-> "stripe", payload |-> StripeEvent(succeeded, StripeObject(Undefined, "succeeded"))],
          [gateway |-> "stripe", payload |-> StripePayload(succeeded, FALSE, Undefined)],
          [gateway |-> "efi", payload |-> NoWebhookPayload],
          [gateway |-> "efi",
           payload |-> EFIPayload(<<[PixRecord("tx1", Undefined, Undefined) EXCEPT !.valor = NoAmount]>>)],
          [gateway |-> "EFI",
           payload |-> EFIPayload(<<PixRecord("tx1", "2024-02-26T10:30:00Z", "client_1")>>)],
          [gateway |-> Undefined, payload |-> StripeEvent(succeeded, StripeObject("pi_1", "succeeded"))] }

\* validateEFIPayload: TRUE iff it returns instead of throwing
validateEFIPayload(payload) ==
  /\ payload.hasPix /\ Len(payload.pix) > 0
  /\ payload.pix[1].txid # Undefined /\ payload.pix[1].valor # NoAmount

\* validateStripePayload: TRUE iff it returns instead of throwing
validateStripePayload(payload) == payload.type # Undefined /\ payload.hasObject

\* normalizeWebhookFromGateway: TRUE iff it returns instead of throwing
normalizeWebhookValid(gateway, payload) ==
  CASE gateway = "efi" -> validateEFIPayload(payload)
    [] gateway = "stripe" -> validateStripePayload(payload)
    [] OTHER -> FALSE

mapEFIStatus(pixRecord) == IF pixRecord.horario = Undefined THEN "pending" ELSE "completed"

mapStripeStatus(stripeStatus) ==
  CASE stripeStatus = "succeeded" -> "completed"
    [] stripeStatus = "processing" -> "processing"
    [] stripeStatus \in {"requires_action", "requires_confirmation",
                         "requires_payment_method"} -> "pending"
    [] stripeStatus = "requires_capture" -> "authorized"
    [] stripeStatus = "canceled" -> "canceled"
    [] stripeStatus \in ObjectPrototypeProperties -> Inherited(stripeStatus)
    [] OTHER -> "unknown"

mapStripeEventType(stripeEventType) ==
  CASE stripeEventType = "payment_intent.succeeded" -> "payment.completed"
    [] stripeEventType = "payment_intent.payment_failed" -> "payment.failed"
    [] stripeEventType = "payment_intent.canceled" -> "payment.canceled"
    [] stripeEventType = "charge.captured" -> "payment.captured"
    [] stripeEventType = "charge.refunded" -> "payment.refunded"
    [] stripeEventType \in ObjectPrototypeProperties -> Inherited(stripeEventType)
    [] OTHER -> "payment.other"

\* normalizeWebhookFromGateway on a payload it accepts; clock stands for
\* new Date().toISOString()
normalizeWebhookFromGateway(gateway, payload, clock) ==
  IF gateway = "efi"
  THEN LET pixRecord == payload.pix[1] IN
       [ event |-> "payment.updated", gateway |-> "efi",
         gateway_event_id |-> pixRecord.txid, payment_id |-> pixRecord.txid,
         status |-> mapEFIStatus(pixRecord), amount |-> pixRecord.valor, currency |-> "BRL",
         timestamp |-> IF pixRecord.horario # Undefined THEN pixRecord.horario ELSE clock ]
  ELSE LET stripeObject == payload.object IN
       [ event |-> mapStripeEventType(payload.type), gateway |-> "stripe",
         gateway_event_id |-> payload.id, payment_id |-> stripeObject.id,
         status |-> mapStripeStatus(stripeObject.status),
         amount |-> IF stripeObject.amount \in {NoAmount, 0} THEN NoAmount
                    ELSE stripeObject.amount \div 100,
         currency |-> "USD", timestamp |-> "created" ]

NoNotification ==
  [ event |-> None, gateway |-> None, gateway_event_id |-> Undefined,
    payment_id |-> Undefined, status |-> None, amount |-> NoAmount, currency |-> None,
    timestamp |-> None ]

\* ------------------------------------------------------- callback resolver
NoUrl == "null"

extractClientIdFromPayload(gateway, payload) ==
  CASE gateway = "efi" ->
         IF payload.hasPix /\ Len(payload.pix) > 0 /\ payload.pix[1].clientId # Undefined
         THEN payload.pix[1].clientId ELSE Undefined
    [] gateway = "stripe" ->
         IF payload.hasObject THEN payload.object.clientId ELSE Undefined
    [] OTHER -> Undefined

\* lookupCallbackUrl: the stub returns null for every client
lookupCallbackUrl(clientId, gateway) == NoUrl

getClientCallbackUrl(gateway, payload) ==
  LET clientId == extractClientIdFromPayload(gateway, payload) IN
  IF clientId = Undefined THEN NoUrl ELSE lookupCallbackUrl(clientId, gateway)

\* --------------------------------------------------------- delivery engine
NoStatus == 0

\* the outcome of one axios.post: the 2xx response, or the error it rejects with
Delivered == [code |-> "OK", status |-> 200, message |-> "OK"]

NetworkErrors ==
  { [code |-> c, status |-> NoStatus, message |-> c] :
    c \in {"ECONNREFUSED", "ETIMEDOUT", "ECONNABORTED", "ENOTFOUND"} }

HttpErrors ==
  { [code |-> IF st >= 500 THEN "ERR_BAD_RESPONSE"
              ELSE IF st >= 400 THEN "ERR_BAD_REQUEST" ELSE Undefined,
     status |-> st, message |-> ToString(st)] :
    st \in {304, 400, 404, 429, 499, 500, 503, 599} }

DeliveryErrors == NetworkErrors \cup HttpErrors

\* a plausible slip: every error status counts as temporary
isRetryableError_AnyStatus(error) ==
  \/ error.code \in {"ECONNREFUSED", "ETIMEDOUT", "ECONNABORTED"}
  \/ error.status >= 400 /\ error.status < 600
  \/ error.status = 429

\* a plausible slip: the 429 branch is missing
isRetryableError_No429(error) ==
  \/ error.code \in {"ECONNREFUSED", "ETIMEDOUT", "ECONNABORTED"}
  \/ error.status >= 500 /\ error.status < 600

\* isRetryableError
isRetryableError(error) ==
  \/ error.code \in {"ECONNREFUSED", "ETIMEDOUT", "ECONNABORTED"}
  \/ error.status >= 500 /\ error.status < 600
  \/ error.status = 429

\* a plausible slip: the exponent is the zero-based attempt
BackoffMs_ZeroBased(n) == (2 ^ (n - 1)) * 1000

\* the argument of sleep after failed attempt n: Math.pow(2, attempt) * 1000
BackoffMs(n) == (2 ^ n) * 1000

CallbackUrls == {"https://client.example/webhooks"}

NoArgs == [url |-> NoUrl, data |-> <<>>, gateway |-> None]
NoError == [code |-> Undefined, status |-> NoStatus, message |-> ""]
NoThrown == [name |-> None, url |-> NoUrl, attempts |-> 0, cause |-> ""]

\* ----------------------------------------------------------------- state
VARIABLES
  pc,          \* pc[r]: where invocation r of the proxy handler stands
  req,         \* req[r]: what extractAndValidateInput returned
  normalized,  \* normalized[r]: normalizedResponse and the Item built from it
  result,      \* result[r]: the HTTP response the handler returned
  invoked,     \* invoked[r]: the gateway whose adapter r called, and how it ended
  log,         \* log[r]: the logger.error message of r
  store,       \* the idempotency table: key -> Item
  now,         \* Date.now() / 1000
  metrics,     \* the metrics table: (gateway, window) -> failures
  cbpc,        \* cbpc[c]: where caller c of recordFailure stands
  cbgw,        \* cbgw[c]: its gatewayName
  cbret,       \* cbret[c]: what its last recordFailure returned
  raced,       \* history: keys on which two invocations overlapped
  firstItem,   \* history: the Item first written for a key since its last expiry,
               \* and the body returned with it
  cbwin,       \* cbwin[c]: the windowKey local of c's recordFailure
  cbnum,       \* history: cbnum[c]: the number of c's call among the calls of its counter
  calls,       \* history: (gateway, window) -> recordFailure calls begun
  opened,      \* history: the (gateway, window) pairs in which recordFailure returned true
  overlapped,  \* history: the callers whose current call overlapped another call
  batch,       \* event.Records of the worker invocation
  widx,        \* the record the handler's loop stands at
  wpc,         \* where the worker handler stands
  batchItemFailures, \* the handler's list of failed message ids
  processed,   \* history: processed[i]: the calls of processWebhookRecord for record i
  threw,       \* history: threw[i]: the error processWebhookRecord raised for record i
  delivered,   \* history: the records for which an axios.post resolved
  dpc,         \* where deliverWebhook stands
  dargs,       \* its arguments: url, data, gateway
  attempt,     \* its loop variable
  lastError,   \* its lastError
  thrown,      \* the Error it threw
  httpLog,     \* history: the outcomes of the axios.post calls of the delivery
  sleeps,      \* history: the milliseconds of the sleeps of the delivery
  caught,      \* caught[i]: the error the catch of handler invocation i received
  responded,   \* responded[i]: what createErrorResponse returned for it
  nrCall,      \* the last call of normalizeGatewayResponse: its arguments and outcome
  nwCall,      \* the last call of normalizeWebhookFromGateway: its arguments and outcome
  rpc,         \* rpc[i]: where invocation i of the receiver's handler stands
  revent,      \* revent[i]: its event
  rmessage,    \* rmessage[i]: the message queueWebhook built
  rcaught,     \* rcaught[i]: the error its catch received
  rresponse,   \* rresponse[i]: what it returned
  rsent,       \* rsent[i]: the MessageId sqs.send resolved with, 0 when it has not
  queue        \* the messages of the webhook queue, in the order they arrived

breakerVars == <<cbwin, cbnum, calls, opened, overlapped>>

handlerVars == <<batch, widx, wpc, batchItemFailures, processed, threw, delivered>>

deliveryVars == <<dpc, dargs, attempt, lastError, thrown, httpLog, sleeps>>

workerVars == <<handlerVars, deliveryVars>>

receiverVars == <<rpc, revent, rmessage, rcaught, rresponse, rsent, queue>>

libraryVars == <<caught, responded, nrCall, nwCall, receiverVars>>

vars == <<pc, req, normalized, result, invoked, log, store, now, metrics,
          cbpc, cbgw, cbret, raced, firstItem, breakerVars, workerVars, libraryVars>>

NoReq == [tenantId |-> Missing, idempotencyKey |-> Missing, gateway |-> None, payload |-> NoPayload]
NoNormalized == [response |-> <<>>, ttl |-> 0]
NoInvocation == [gateway |-> None, outcome |-> None]
NoItem == [response |-> <<>>, ttl |-> 0]
NoFirst == [response |-> <<>>, ttl |-> 0, body |-> <<>>]

\* createIdempotencyKey
\* a plausible slip: the partition key does not carry the tenant
createIdempotencyKey_NoTenant(tenantId, idempotencyKey) ==
  <<(<<"TENANT", Missing>>), (<<"IDEM", idempotencyKey>>)>>

createIdempotencyKey(tenantId, idempotencyKey) ==
  <<(<<"TENANT", tenantId>>), (<<"IDEM", idempotencyKey>>)>>

KeyOf(r) == createIdempotencyKey(req[r].tenantId, req[r].idempotencyKey)

\* getCurrentTimestamp
getCurrentTimestamp == now

\* calculateWindowKey
calculateWindowKey(timestamp) == timestamp \div MONITOR_WINDOW_SECONDS

\* a plausible slip: the partition key does not carry the gateway
createMetricsKey_NoGateway(gatewayName, windowKey) ==
  <<(<<"GW", None>>), (<<"WINDOW", windowKey>>)>>

\* createMetricsKey
createMetricsKey(gatewayName, windowKey) ==
  <<(<<"GW", gatewayName>>), (<<"WINDOW", windowKey>>)>>

NoWindow == -1

NoResponseCall ==
  [gateway |-> None, response |-> [txid |-> Undefined, id |-> Undefined, status |-> Undefined],
   threw |-> None, output |-> <<>>]

NoWebhookCall ==
  [gateway |-> None, payload |-> NoWebhookPayload, threw |-> None, output |-> NoNotification]

InFlight(r) == pc[r] \in {"check", "gateway", "save"}

Init ==
  /\ pc = [r \in Requests |-> "idle"]
  /\ req = [r \in Requests |-> NoReq]
  /\ normalized = [r \in Requests |-> NoNormalized]
  /\ result = [r \in Requests |-> NoResult]
  /\ invoked = [r \in Requests |-> NoInvocation]
  /\ log = [r \in Requests |-> None]
  /\ store = <<>>
  /\ now = 0
  /\ metrics = <<>>
  /\ cbpc = [c \in Racers |-> "idle"]
  /\ cbgw = [c \in Racers |-> None]
  /\ cbret = [c \in Racers |-> None]
  /\ raced = {}
  /\ firstItem = [k \in {createIdempotencyKey(t[1], t[2]) : t \in TK} |-> NoFirst]
  /\ cbwin = [c \in Racers |-> NoWindow]
  /\ cbnum = [c \in Racers |-> 0]
  /\ calls = <<>>
  /\ opened = {}
  /\ overlapped = {}
  /\ batch = <<>>
  /\ widx = 0
  /\ wpc = "idle"
  /\ batchItemFailures = <<>>
  /\ processed = <<>>
  /\ threw = <<>>
  /\ delivered = {}
  /\ dpc = "idle"
  /\ dargs = NoArgs
  /\ attempt = 0
  /\ lastError = NoError
  /\ thrown = NoThrown
  /\ httpLog = <<>>
  /\ sleeps = <<>>
  /\ caught = [i \in Catches |-> NoCaught]
  /\ responded = [i \in Catches |-> NoResult]
  /\ nrCall = NoResponseCall
  /\ nwCall = NoWebhookCall
  /\ rpc = [i \in Webhooks |-> "idle"]
  /\ revent = [i \in Webhooks |-> NoWebhookEvent]
  /\ rmessage = [i \in Webhooks |-> NoMessage]
  /\ rcaught = [i \in Webhooks |-> NoCaught]
  /\ rresponse = [i \in Webhooks |-> NoResult]
  /\ rsent = [i \in Webhooks |-> 0]
  /\ queue = <<>>

\* How invocation r ends: the handler returns response; its locals are gone
Finish(r, response) ==
  /\ pc' = [pc EXCEPT ![r] = "done"]
  /\ result' = [result EXCEPT ![r] = response]
  /\ req' = [req EXCEPT ![r].gateway = None, ![r].payload = NoPayload]
  /\ normalized' = [normalized EXCEPT ![r] = NoNormalized]

\* Tenants and keys are numbered in the order of their first appearance
Seen(field) == {req[q][field] : q \in Requests}

Fresh(value, seen) == \A v \in 1..(value - 1) : v \in seen

\* handler + processPayment up to its first await: extractAndValidateInput;
\* invocations are numbered in the order of their arrival
Submit(r, event) ==
  /\ pc[r] = "idle"
  /\ \A q \in Requests : q < r => pc[q] # "idle"
  /\ Fresh(event.tenantId, Seen("tenantId"))
  /\ Fresh(event.idempotencyKey, Seen("idempotencyKey"))
  /\ IF extractAndValidateInput(event)
     THEN /\ pc' = [pc EXCEPT ![r] = "check"]
          /\ req' = [req EXCEPT ![r] =
                       [tenantId |-> event.tenantId, idempotencyKey |-> event.idempotencyKey,
                        gateway |-> event.activeGateway, payload |-> event.body]]
          /\ raced' = IF \E q \in Requests \ {r} :
                            /\ InFlight(q)
                            /\ KeyOf(q) = createIdempotencyKey(event.tenantId, event.idempotencyKey)
                      THEN raced \cup {createIdempotencyKey(event.tenantId, event.idempotencyKey)}
                      ELSE raced
          /\ UNCHANGED <<result, normalized>>
     ELSE /\ Finish(r, createErrorResponse("ValidationError"))
          /\ UNCHANGED raced
  /\ UNCHANGED <<invoked, log, store, now, metrics, cbpc, cbgw, cbret, firstItem>>
  /\ UNCHANGED <<breakerVars, workerVars, libraryVars>>

\* a plausible slip: the wrong attribute of the Item is read, so nothing is ever cached
CachedResponse_WrongAttribute(table, key) ==
  IF key \in DOMAIN table /\ table[key].response = <<>>
  THEN JSONparse(table[key].response)
  ELSE <<>>

\* checkIdempotency's reading of a GetCommand result: the cached response or null
CachedResponse(table, key) ==
  IF key \in DOMAIN table /\ table[key].response # <<>>
  THEN JSONparse(table[key].response)
  ELSE <<>>

\* a plausible slip: the failed read is logged and taken for "absent"
CheckIdempotencyFails_FailOpen(r) ==
  /\ pc[r] = "check"
  /\ log' = [log EXCEPT ![r] = "Failed to check idempotency"]
  /\ IF ~validatePaymentRequest(req[r].payload)
     THEN /\ Finish(r, createErrorResponse("ValidationError"))
          /\ UNCHANGED invoked
     ELSE /\ pc' = [pc EXCEPT ![r] = "gateway"]
          /\ invoked' = [invoked EXCEPT ![r] = [gateway |-> req[r].gateway, outcome |-> "pending"]]
          /\ UNCHANGED <<result, req, normalized>>
  /\ UNCHANGED <<store, now, metrics, cbpc, cbgw, cbret, raced, firstItem>>
  /\ UNCHANGED <<breakerVars, workerVars, libraryVars>>

\* the GetCommand of checkIdempotency fails: logged, rethrown, answered by the handler
CheckIdempotencyFails(r) ==
  /\ pc[r] = "check"
  /\ log' = [log EXCEPT ![r] = "Failed to check idempotency"]
  /\ Finish(r, createErrorResponse("Error"))
  /\ UNCHANGED <<invoked, store, now, metrics, cbpc, cbgw, cbret, raced, firstItem>>
  /\ UNCHANGED <<breakerVars, workerVars, libraryVars>>

\* a plausible change: a key another invocation is working on is a conflict (409)
CheckIdempotency_Locked(r) ==
  /\ pc[r] = "check"
  /\ LET cachedResponse == CachedResponse(store, KeyOf(r)) IN
     IF cachedResponse # <<>>
     THEN /\ Finish(r, [statusCode |-> 200, body |-> JSONstringify(cachedResponse)])
          /\ UNCHANGED invoked
     ELSE IF \E q \in Requests \ {r} : KeyOf(q) = KeyOf(r) /\ pc[q] \in {"gateway", "save"}
     THEN /\ Finish(r, [statusCode |-> 409, body |-> <<(<<"error", "IdempotencyError">>)>>])
          /\ UNCHANGED invoked
     ELSE IF ~validatePaymentRequest(req[r].payload)
     THEN /\ Finish(r, createErrorResponse("ValidationError"))
          /\ UNCHANGED invoked
     ELSE /\ pc' = [pc EXCEPT ![r] = "gateway"]
          /\ invoked' = [invoked EXCEPT ![r] = [gateway |-> req[r].gateway, outcome |-> "pending"]]
          /\ UNCHANGED <<result, req, normalized>>
  /\ UNCHANGED <<log, store, now, metrics, cbpc, cbgw, cbret, raced, firstItem>>
  /\ UNCHANGED <<breakerVars, workerVars, libraryVars>>

\* a plausible change: a hit renews the ttl of the record it read
CheckIdempotency_Refresh(r) ==
  /\ pc[r] = "check"
  /\ LET cachedResponse == CachedResponse(store, KeyOf(r)) IN
     IF cachedResponse # <<>>
     THEN /\ Finish(r, [statusCode |-> 200, body |-> JSONstringify(cachedResponse)])
          /\ store' = [store EXCEPT ![KeyOf(r)].ttl = getCurrentTimestamp + IDEMPOTENCY_TTL_SECONDS + 1]
          /\ UNCHANGED invoked
     ELSE IF ~validatePaymentRequest(req[r].payload)
     THEN /\ Finish(r, createErrorResponse("ValidationError"))
          /\ UNCHANGED <<invoked, store>>
     ELSE /\ pc' = [pc EXCEPT ![r] = "gateway"]
          /\ invoked' = [invoked EXCEPT ![r] = [gateway |-> req[r].gateway, outcome |-> "pending"]]
          /\ UNCHANGED <<result, req, normalized, store>>
  /\ UNCHANGED <<log, now, metrics, cbpc, cbgw, cbret, raced, firstItem>>
  /\ UNCHANGED <<breakerVars, workerVars, libraryVars>>

\* processPayment from the GetCommand's completion to the adapter call
CheckIdempotency(r) ==
  /\ pc[r] = "check"
  /\ LET cachedResponse == CachedResponse(store, KeyOf(r)) IN
     IF cachedResponse # <<>>
     THEN /\ Finish(r, [statusCode |-> 200, body |-> JSONstringify(cachedResponse)])
          /\ UNCHANGED invoked
     ELSE IF ~validatePaymentRequest(req[r].payload)
     THEN /\ Finish(r, createErrorResponse("ValidationError"))
          /\ UNCHANGED invoked
     ELSE /\ pc' = [pc EXCEPT ![r] = "gateway"]
          /\ invoked' = [invoked EXCEPT ![r] = [gateway |-> req[r].gateway, outcome |-> "pending"]]
          /\ UNCHANGED <<result, req, normalized>>
  /\ UNCHANGED <<log, store, now, metrics, cbpc, cbgw, cbret, raced, firstItem>>
  /\ UNCHANGED <<breakerVars, workerVars, libraryVars>>

\* the adapter call fails: handleError, and the error reaches the handler
GatewayFails(r, failure) ==
  /\ pc[r] = "gateway"
  /\ failure \in AdapterFailures(req[r].gateway)
  /\ invoked' = [invoked EXCEPT ![r].outcome = "failure"]
  /\ Finish(r, createErrorResponse(handleError(failure)))
  /\ UNCHANGED <<log, store, now, metrics, cbpc, cbgw, cbret, raced, firstItem>>
  /\ UNCHANGED <<breakerVars, workerVars, libraryVars>>

\* what the provider did: a payment with a transaction id, or a result without one
ProviderOutcome(response) ==
  IF response.txid = Undefined /\ response.id = Undefined THEN "malformed" ELSE "success"

\* a plausible slip: the normalised response is built without validating the result
GatewaySucceeds_NoValidate(r, response) ==
  /\ pc[r] = "gateway"
  /\ response \in ProviderResults(req[r].gateway)
  /\ invoked' = [invoked EXCEPT ![r].outcome = ProviderOutcome(response)]
  /\ pc' = [pc EXCEPT ![r] = "save"]
  /\ normalized' = [normalized EXCEPT ![r] =
       [response |-> normalizeGatewayResponse(req[r].gateway, response,
                                              generateOrchestrationId(r)),
        ttl |-> getCurrentTimestamp + IDEMPOTENCY_TTL_SECONDS]]
  /\ UNCHANGED <<result, req>>
  /\ UNCHANGED <<log, store, now, metrics, cbpc, cbgw, cbret, raced, firstItem>>
  /\ UNCHANGED <<breakerVars, workerVars, libraryVars>>

\* a plausible change: a successful adapter call clears the failures of its gateway
GatewaySucceeds_ClosesBreaker(r, response) ==
  /\ pc[r] = "gateway"
  /\ response \in ProviderResults(req[r].gateway)
  /\ invoked' = [invoked EXCEPT ![r].outcome = ProviderOutcome(response)]
  /\ IF ~normalizeValid(req[r].gateway, response)
     THEN Finish(r, createErrorResponse("ValidationError"))
     ELSE /\ pc' = [pc EXCEPT ![r] = "save"]
          /\ normalized' = [normalized EXCEPT ![r] =
               [response |-> normalizeGatewayResponse(req[r].gateway, response,
                                                      generateOrchestrationId(r)),
                ttl |-> getCurrentTimestamp + IDEMPOTENCY_TTL_SECONDS]]
          /\ UNCHANGED <<result, req>>
  /\ metrics' = [k \in DOMAIN metrics |->
                   IF k[1] = <<"GW", req[r].gateway>> THEN 0 ELSE metrics[k]]
  /\ UNCHANGED <<log, store, now, cbpc, cbgw, cbret, raced, firstItem>>
  /\ UNCHANGED <<breakerVars, workerVars, libraryVars>>

\* the adapter call succeeds: normalizeGatewayResponse, then the PutCommand is built
GatewaySucceeds(r, response) ==
  /\ pc[r] = "gateway"
  /\ response \in ProviderResults(req[r].gateway)
  /\ invoked' = [invoked EXCEPT ![r].outcome = ProviderOutcome(response)]
  /\ IF ~normalizeValid(req[r].gateway, response)
     THEN Finish(r, createErrorResponse("ValidationError"))
     ELSE /\ pc' = [pc EXCEPT ![r] = "save"]
          /\ normalized' = [normalized EXCEPT ![r] =
               [response |-> normalizeGatewayResponse(req[r].gateway, response,
                                                      generateOrchestrationId(r)),
                ttl |-> getCurrentTimestamp + IDEMPOTENCY_TTL_SECONDS]]
          /\ UNCHANGED <<result, req>>
  /\ UNCHANGED <<log, store, now, metrics, cbpc, cbgw, cbret, raced, firstItem>>
  /\ UNCHANGED <<breakerVars, workerVars, libraryVars>>

\* the PutCommand of saveIdempotencyRecord: the table after it
PutItem(table, key, item) ==
  [k \in DOMAIN table \cup {key} |-> IF k = key THEN item ELSE table[k]]

\* a plausible slip: the failed write is logged and not rethrown
SaveIdempotencyRecordFails_Swallowed(r) ==
  /\ pc[r] = "save"
  /\ log' = [log EXCEPT ![r] = "Failed to save idempotency record"]
  /\ Finish(r, [statusCode |-> 201, body |-> JSONstringify(normalized[r].response)])
  /\ UNCHANGED <<invoked, store, now, metrics, cbpc, cbgw, cbret, raced, firstItem>>
  /\ UNCHANGED <<breakerVars, workerVars, libraryVars>>

\* the PutCommand of saveIdempotencyRecord fails: logged, rethrown, answered by the handler
SaveIdempotencyRecordFails(r) ==
  /\ pc[r] = "save"
  /\ log' = [log EXCEPT ![r] = "Failed to save idempotency record"]
  /\ Finish(r, createErrorResponse("Error"))
  /\ UNCHANGED <<invoked, store, now, metrics, cbpc, cbgw, cbret, raced, firstItem>>
  /\ UNCHANGED <<breakerVars, workerVars, libraryVars>>

\* saveIdempotencyRecord completes, and processPayment returns
SaveIdempotencyRecord(r) ==
  /\ pc[r] = "save"
  /\ LET item == [response |-> JSONstringify(normalized[r].response),
                  ttl |-> normalized[r].ttl] IN
     /\ store' = PutItem(store, KeyOf(r), item)
     /\ firstItem' = IF KeyOf(r) \in DOMAIN store THEN firstItem
                     ELSE [firstItem EXCEPT ![KeyOf(r)] =
                             [response |-> item.response, ttl |-> item.ttl,
                              body |-> JSONstringify(normalized[r].response)]]
  /\ Finish(r, [statusCode |-> 201, body |-> JSONstringify(normalized[r].response)])
  /\ UNCHANGED <<invoked, log, now, metrics, cbpc, cbgw, cbret, raced>>
  /\ UNCHANGED <<breakerVars, workerVars, libraryVars>>

\* DynamoDB deletes an Item some time after its ttl attribute has passed
Expire(key) ==
  /\ key \in DOMAIN store
  /\ now > store[key].ttl
  /\ store' = [k \in DOMAIN store \ {key} |-> store[k]]
  /\ firstItem' = [firstItem EXCEPT ![key] = NoFirst]
  /\ UNCHANGED <<pc, req, normalized, result, invoked, log, now, metrics, cbpc, cbgw, cbret, raced,
                 breakerVars, workerVars, libraryVars>>

\* time passes, by the lifetime of a record and a second
TickSeconds == IDEMPOTENCY_TTL_SECONDS + 1

Tick ==
  /\ now + TickSeconds <= MaxTicks * TickSeconds
  /\ now' = now + TickSeconds
  /\ UNCHANGED <<pc, req, normalized, result, invoked, log, store, metrics, cbpc, cbgw, cbret,
                 raced, firstItem, breakerVars, workerVars, libraryVars>>

\* ------------------------------------------------------- circuit breaker
\* the GetCommand of getFailureCount: result.Item?.failures || 0
FailuresIn(table, gatewayName, timestamp) ==
  LET key == createMetricsKey(gatewayName, calculateWindowKey(timestamp)) IN
  IF key \in DOMAIN table THEN table[key] ELSE 0

RECURSIVE SumOver(_, _)
SumOver(f, S) ==
  IF S = {} THEN 0 ELSE LET k == CHOOSE k \in S : TRUE IN f[k] + SumOver(f, S \ {k})

\* a plausible slip: the failures of the gateway are summed over all its windows
getFailureCount_AllWindows(gatewayName) ==
  SumOver(metrics, {key \in DOMAIN metrics : key[1] = <<"GW", gatewayName>>})

\* getFailureCount: the counter of the window of the time of the call
getFailureCount(gatewayName) == FailuresIn(metrics, gatewayName, getCurrentTimestamp)

\* a plausible slip: === for >=
CircuitOpen_Exact(gatewayName) == getFailureCount(gatewayName) = FAILURE_THRESHOLD

\* a plausible slip: > for >=
CircuitOpen_Strict(gatewayName) == getFailureCount(gatewayName) > FAILURE_THRESHOLD

\* the comparison of recordFailure: the breaker reports the gateway open
CircuitOpen(gatewayName) == getFailureCount(gatewayName) >= FAILURE_THRESHOLD

\* a plausible slip: SET failures = :one, which overwrites the earlier increments
incrementFailureCount_SetOne(table, gatewayName, windowKey) ==
  LET key == createMetricsKey(gatewayName, windowKey) IN
  [k \in DOMAIN table \cup {key} |-> IF k = key THEN 1 ELSE table[k]]

\* incrementFailureCount: SET failures = if_not_exists(failures, 0) + 1
incrementFailureCount(table, gatewayName, windowKey) ==
  LET key == createMetricsKey(gatewayName, windowKey) IN
  [k \in DOMAIN table \cup {key} |->
     IF k = key THEN (IF key \in DOMAIN table THEN table[key] ELSE 0) + 1 ELSE table[k]]

\* history: one more call of recordFailure for the counter key
CountCall(table, key) ==
  [k \in DOMAIN table \cup {key} |->
     IF k = key THEN (IF key \in DOMAIN table THEN table[key] ELSE 0) + 1 ELSE table[k]]

\* recordFailure up to the completion of its UpdateCommand
RecordFailureIncrement(c, gatewayName) ==
  /\ cbpc[c] = "idle"
  /\ SumOver(metrics, DOMAIN metrics) < MaxRecorded
  /\ LET timestamp == getCurrentTimestamp
         windowKey == calculateWindowKey(timestamp)
         key == createMetricsKey(gatewayName, windowKey)
         running == {d \in Racers \ {c} : cbpc[d] = "read"} IN
     /\ metrics' = incrementFailureCount(metrics, gatewayName, windowKey)
     /\ cbwin' = [cbwin EXCEPT ![c] = windowKey]
     /\ calls' = CountCall(calls, key)
     /\ cbnum' = [cbnum EXCEPT ![c] = calls'[key]]
     /\ overlapped' = IF running = {} THEN overlapped \ {c}
                      ELSE overlapped \cup running \cup {c}
  /\ cbpc' = [cbpc EXCEPT ![c] = "read"]
  /\ cbgw' = [cbgw EXCEPT ![c] = gatewayName]
  /\ cbret' = [cbret EXCEPT ![c] = None]
  /\ UNCHANGED <<pc, req, normalized, result, invoked, log, store, now, raced, firstItem,
                 opened, workerVars, libraryVars>>

\* a plausible change: the counter is cleared when the breaker opens
RecordFailureRead_Reset(c) ==
  /\ cbpc[c] = "read"
  /\ cbret' = [cbret EXCEPT ![c] =
                 IF CircuitOpen(cbgw[c]) THEN "true" ELSE "false"]
  /\ opened' = IF CircuitOpen(cbgw[c])
               THEN opened \cup {<<cbgw[c], calculateWindowKey(getCurrentTimestamp)>>}
               ELSE opened
  /\ metrics' = IF CircuitOpen(cbgw[c])
                THEN [k \in DOMAIN metrics |->
                        IF k = createMetricsKey(cbgw[c], calculateWindowKey(getCurrentTimestamp))
                        THEN 0 ELSE metrics[k]]
                ELSE metrics
  /\ cbpc' = [cbpc EXCEPT ![c] = "idle"]
  /\ UNCHANGED <<pc, req, normalized, result, invoked, log, store, now, cbgw,
                 raced, firstItem, cbwin, cbnum, calls, overlapped, workerVars, libraryVars>>

\* recordFailure from its getFailureCount to its return
RecordFailureRead(c) ==
  /\ cbpc[c] = "read"
  /\ cbret' = [cbret EXCEPT ![c] =
                 IF CircuitOpen(cbgw[c]) THEN "true" ELSE "false"]
  /\ opened' = IF CircuitOpen(cbgw[c])
               THEN opened \cup {<<cbgw[c], calculateWindowKey(getCurrentTimestamp)>>}
               ELSE opened
  /\ cbpc' = [cbpc EXCEPT ![c] = "idle"]
  /\ UNCHANGED <<pc, req, normalized, result, invoked, log, store, now, metrics, cbgw,
                 raced, firstItem, cbwin, cbnum, calls, overlapped, workerVars, libraryVars>>

\* time passes, by half a monitoring window
ElapseSeconds == MONITOR_WINDOW_SECONDS \div 2

Elapse ==
  /\ now + ElapseSeconds <= MaxTicks * MONITOR_WINDOW_SECONDS
  /\ now' = now + ElapseSeconds
  /\ UNCHANGED <<pc, req, normalized, result, invoked, log, store, metrics, cbpc, cbgw, cbret,
                 raced, firstItem, breakerVars, workerVars, libraryVars>>

\* ----------------------------------------------------------------- worker
\* the batches the queue hands to one invocation: record i has messageId i and
\* batch[i] is its body
Batches == UNION {[1..n -> MessageBodies] : n \in 1..MaxBatch}

proxyVars == <<pc, req, normalized, result, invoked, log, store, now, metrics,
               cbpc, cbgw, cbret, raced, firstItem, breakerVars>>

\* the worker handler up to its loop
StartBatch(records) ==
  /\ wpc = "idle" /\ dpc = "idle"
  /\ batch' = records
  /\ widx' = 1
  /\ wpc' = "record"
  /\ batchItemFailures' = <<>>
  /\ processed' = [i \in 1..Len(records) |-> 0]
  /\ threw' = [i \in 1..Len(records) |-> None]
  /\ delivered' = {}
  /\ UNCHANGED <<proxyVars, libraryVars, deliveryVars>>

\* the handler's loop moves on, or returns { batchItemFailures } after the last record
Advance ==
  IF widx = Len(batch)
  THEN wpc' = "done" /\ widx' = widx
  ELSE wpc' = "record" /\ widx' = widx + 1

\* processWebhookRecord returned: the handler's try block completes
RecordSucceeds ==
  /\ Advance
  /\ UNCHANGED <<batchItemFailures, threw>>

\* a plausible slip: the handler rethrows, as its earlier version did
RecordFails_Rethrow(name) ==
  /\ threw' = [threw EXCEPT ![widx] = name]
  /\ wpc' = "done" /\ widx' = widx
  /\ UNCHANGED batchItemFailures

\* processWebhookRecord threw: the handler's catch lists the messageId
RecordFails(name) ==
  /\ threw' = [threw EXCEPT ![widx] = name]
  /\ batchItemFailures' = Append(batchItemFailures, widx)
  /\ Advance

\* the entry of deliverWebhook
BeginDelivery(url, data, gateway) ==
  /\ dpc' = "post"
  /\ dargs' = [url |-> url, data |-> data, gateway |-> gateway]
  /\ attempt' = 1
  /\ lastError' = NoError
  /\ thrown' = NoThrown
  /\ httpLog' = <<>>
  /\ sleeps' = <<>>

\* a plausible change: a notification without a callback URL is an error
ProcessRecord_ThrowsNoUrl ==
  /\ wpc = "record"
  /\ processed' = [processed EXCEPT ![widx] = @ + 1]
  /\ LET body == batch[widx] IN
     IF body.kind # "json"
     THEN RecordFails("SyntaxError") /\ UNCHANGED <<deliveryVars, delivered>>
     ELSE IF ~normalizeWebhookValid(body.gateway, body.payload)
     THEN RecordFails("ValidationError") /\ UNCHANGED <<deliveryVars, delivered>>
     ELSE LET normalizedData == normalizeWebhookFromGateway(body.gateway, body.payload,
                                                            ToString(now))
              callbackUrl == getClientCallbackUrl(body.gateway, body.payload) IN
          IF callbackUrl = NoUrl
          THEN RecordFails("Error") /\ UNCHANGED <<deliveryVars, delivered>>
          ELSE /\ BeginDelivery(callbackUrl, normalizedData, body.gateway)
               /\ wpc' = "deliver"
               /\ UNCHANGED <<widx, batchItemFailures, threw, delivered>>
  /\ UNCHANGED <<proxyVars, libraryVars, batch>>

\* one turn of the handler's loop: processWebhookRecord up to its return,
\* its throw, or the first axios.post of deliverWebhook
ProcessRecord ==
  /\ wpc = "record"
  /\ processed' = [processed EXCEPT ![widx] = @ + 1]
  /\ LET body == batch[widx] IN
     IF body.kind # "json"
     THEN RecordFails("SyntaxError") /\ UNCHANGED <<deliveryVars, delivered>>
     ELSE IF ~normalizeWebhookValid(body.gateway, body.payload)
     THEN RecordFails("ValidationError") /\ UNCHANGED <<deliveryVars, delivered>>
     ELSE LET normalizedData == normalizeWebhookFromGateway(body.gateway, body.payload,
                                                            ToString(now))
              callbackUrl == getClientCallbackUrl(body.gateway, body.payload) IN
          IF callbackUrl = NoUrl
          THEN RecordSucceeds /\ UNCHANGED <<deliveryVars, delivered>>
          ELSE /\ BeginDelivery(callbackUrl, normalizedData, body.gateway)
               /\ wpc' = "deliver"
               /\ UNCHANGED <<widx, batchItemFailures, threw, delivered>>
  /\ UNCHANGED <<proxyVars, libraryVars, batch>>

\* deliverWebhook called with a callback URL
DeliverWebhook(url, data, gateway) ==
  /\ wpc = "idle" /\ dpc = "idle"
  /\ BeginDelivery(url, data, gateway)
  /\ UNCHANGED <<proxyVars, libraryVars, handlerVars>>

\* the axios.post resolves: deliverWebhook returns
PostSucceeds ==
  /\ dpc = "post"
  /\ httpLog' = Append(httpLog, Delivered)
  /\ dpc' = "returned"
  /\ IF wpc = "deliver"
     THEN /\ RecordSucceeds
          /\ delivered' = delivered \cup {widx}
          /\ UNCHANGED <<batch, processed>>
     ELSE UNCHANGED handlerVars
  /\ UNCHANGED <<proxyVars, libraryVars, dargs, attempt, lastError, thrown, sleeps>>

\* the throw that ends deliverWebhook, and the catch of its caller
Raise(error) ==
  /\ dpc' = "raised"
  /\ thrown' = [name |-> "Error", url |-> dargs.url, attempts |-> MAX_RETRIES,
                cause |-> error.message]
  /\ IF wpc = "deliver"
     THEN RecordFails("Error") /\ UNCHANGED <<batch, processed, delivered>>
     ELSE UNCHANGED handlerVars

\* a plausible slip: attempt === MAX_RETRIES is not tested before the sleep
PostFails_NoCap(error) ==
  /\ dpc = "post"
  /\ httpLog' = Append(httpLog, error)
  /\ lastError' = error
  /\ IF ~isRetryableError(error)
     THEN Raise(lastError') /\ UNCHANGED sleeps
     ELSE /\ dpc' = "sleep"
          /\ sleeps' = Append(sleeps, BackoffMs(attempt))
          /\ UNCHANGED <<thrown, handlerVars>>
  /\ UNCHANGED <<proxyVars, libraryVars, dargs, attempt>>

\* a plausible slip: lastError = lastError || error
PostFails_FirstError(error) ==
  /\ dpc = "post"
  /\ httpLog' = Append(httpLog, error)
  /\ lastError' = IF lastError = NoError THEN error ELSE lastError
  /\ IF ~isRetryableError(error) \/ attempt = MAX_RETRIES
     THEN Raise(lastError') /\ UNCHANGED sleeps
     ELSE /\ dpc' = "sleep"
          /\ sleeps' = Append(sleeps, BackoffMs(attempt))
          /\ UNCHANGED <<thrown, handlerVars>>
  /\ UNCHANGED <<proxyVars, libraryVars, dargs, attempt>>

\* the axios.post rejects: the catch block of the loop
PostFails(error) ==
  /\ dpc = "post"
  /\ httpLog' = Append(httpLog, error)
  /\ lastError' = error
  /\ IF ~isRetryableError(error) \/ attempt = MAX_RETRIES
     THEN Raise(lastError') /\ UNCHANGED sleeps
     ELSE /\ dpc' = "sleep"
          /\ sleeps' = Append(sleeps, BackoffMs(attempt))
          /\ UNCHANGED <<thrown, handlerVars>>
  /\ UNCHANGED <<proxyVars, libraryVars, dargs, attempt>>

\* a plausible slip: the promise of sleep is never resolved
Wake_NeverResolves ==
  /\ dpc = "sleep"
  /\ UNCHANGED vars

\* the sleep ends: attempt++ and the loop's test
Wake ==
  /\ dpc = "sleep"
  /\ attempt' = attempt + 1
  /\ IF attempt + 1 <= MAX_RETRIES
     THEN dpc' = "post" /\ UNCHANGED <<thrown, handlerVars>>
     ELSE Raise(lastError)
  /\ UNCHANGED <<proxyVars, libraryVars, dargs, lastError, httpLog, sleeps>>

\* the canonical notifications the worker can hand to deliverWebhook
Notifications ==
  { normalizeWebhookFromGateway(b.gateway, b.payload, "clock") :
    b \in {m \in MessageBodies : m.kind = "json" /\ normalizeWebhookValid(m.gateway, m.payload)} }

NextWorker ==
  \/ \E records \in Batches : StartBatch(records)
  \/ ProcessRecord
  \/ \E url \in CallbackUrls, data \in Notifications : DeliverWebhook(url, data, data.gateway)
  \/ PostSucceeds
  \/ \E error \in DeliveryErrors : PostFails(error)
  \/ Wake

SpecWorker == Init /\ [][NextWorker]_vars

\* the same, where every axios.post resolves or rejects (at the latest by its
\* timeout) and every sleep ends
SpecWorkerLive ==
  /\ SpecWorker
  /\ WF_vars(PostSucceeds \/ \E error \in DeliveryErrors : PostFails(error))
  /\ WF_vars(Wake)

\* ---------------------------------------------------------- error responses
\* the catch of the i-th handler invocation: return createErrorResponse(error)
HandlerCatches(i, error) ==
  /\ caught[i] = NoCaught
  /\ \A j \in Catches : j < i => caught[j] # NoCaught
  /\ caught' = [caught EXCEPT ![i] = error]
  /\ responded' = [responded EXCEPT ![i] = ErrorResponse(error)]
  /\ UNCHANGED <<proxyVars, workerVars, nrCall, nwCall, receiverVars>>

NextErrors == \E i \in Catches, error \in Errors(ToString(now)) : HandlerCatches(i, error)

SpecErrors == Init /\ [][NextErrors]_vars

\* -------------------------------------------------------------- normalizers
\* a call of normalizeGatewayResponse: it returns the normalized response, kept
\* as its JSON text, or throws ValidationError
NormalizeResponse(gateway, response) ==
  /\ nrCall' = IF normalizeValid(gateway, response)
               THEN [gateway |-> gateway, response |-> response, threw |-> None,
                     output |-> JSONstringify(normalizeGatewayResponse(
                                  gateway, response, generateOrchestrationId(1)))]
               ELSE [gateway |-> gateway, response |-> response,
                     threw |-> "ValidationError", output |-> <<>>]
  /\ UNCHANGED <<proxyVars, workerVars, caught, responded, nwCall, receiverVars>>

\* a call of normalizeWebhookFromGateway: it returns the notification or throws
\* ValidationError
NormalizeWebhook(gateway, payload) ==
  /\ nwCall' = IF normalizeWebhookValid(gateway, payload)
               THEN [gateway |-> gateway, payload |-> payload, threw |-> None,
                     output |-> normalizeWebhookFromGateway(gateway, payload, ToString(now))]
               ELSE [gateway |-> gateway, payload |-> payload,
                     threw |-> "ValidationError", output |-> NoNotification]
  /\ UNCHANGED <<proxyVars, workerVars, caught, responded, nrCall, receiverVars>>


\* the gateways whose adapter can fail
FailingGateways == {g \in GATEWAY_NAMES : AdapterFailures(g) # {}}

Orchestrator(R) ==
  \/ \E r \in R, event \in Events : Submit(r, event)
  \/ \E r \in R : CheckIdempotencyFails(r)
  \/ \E r \in R : CheckIdempotency(r)
  \/ \E r \in R, failure \in {"ECONNABORTED", "response", "other"} : GatewayFails(r, failure)
  \/ \E r \in R, response \in EFIResults \cup StripeResults : GatewaySucceeds(r, response)
  \/ \E r \in R : SaveIdempotencyRecordFails(r)
  \/ \E r \in R : SaveIdempotencyRecord(r)

Next ==
  \/ Orchestrator(Requests)
  \/ \E key \in DOMAIN store : Expire(key)
  \/ Tick

Spec == Init /\ [][Next]_vars

\* One invocation of the proxy beside the callers of the circuit breaker
NextBreaker ==
  \/ Orchestrator({1})
  \/ \E c \in Callers, gatewayName \in GATEWAY_NAMES : RecordFailureIncrement(c, gatewayName)
  \/ \E c \in Callers : RecordFailureRead(c)

SpecBreaker == Init /\ [][NextBreaker]_vars

\* The same while time passes, for the failures of the gateways that can fail
NextWindow ==
  \/ Orchestrator({1})
  \/ \E c \in Callers, gatewayName \in FailingGateways : RecordFailureIncrement(c, gatewayName)
  \/ \E c \in Callers : RecordFailureRead(c)
  \/ Elapse

SpecWindow == Init /\ [][NextWindow]_vars

\* a call of recordFailure by a new invocation; the invocations are
\* interchangeable, and a new one is given the first number that is free
RacerIncrement(c, gatewayName) ==
  /\ \A d \in Racers : d < c => cbpc[d] = "read"
  /\ RecordFailureIncrement(c, gatewayName)

\* Overlapping recordFailure calls for both gateways while time passes
NextRace ==
  \/ \E c \in Racers, gatewayName \in GATEWAY_NAMES : RacerIncrement(c, gatewayName)
  \/ \E c \in Racers : RecordFailureRead(c)
  \/ Elapse

SpecRace == Init /\ [][NextRace]_vars

\* the normalizers, called by processPayment and called directly, while time passes
NextNormalize ==
  \/ Orchestrator({1})
  \/ \E input \in ResponseInputs : NormalizeResponse(input.gateway, input.response)
  \/ \E input \in WebhookInputs : NormalizeWebhook(input.gateway, input.payload)
  \/ Tick

SpecNormalize == Init /\ [][NextNormalize]_vars

\* --------------------------------------------------------- webhook receiver
\* Object.keys(payload)
ObjectKeys(payload) ==
  (IF payload.hasPix THEN {"pix"} ELSE {})
    \cup (IF payload.type # Undefined THEN {"type"} ELSE {})
    \cup (IF payload.id # Undefined THEN {"id"} ELSE {})
    \cup (IF payload.hasObject THEN {"data"} ELSE {})

ReceiverStack == "at extractAndValidateWebhook (service.js:40:11)"

\* extractAndValidateWebhook: the ValidationError it throws, NoCaught when it returns
extractAndValidateWebhook(event, clock) ==
  IF event.gateway \in {Undefined, ""}
  THEN ValidationError("Gateway in URL path is required", "{field}", ReceiverStack, clock)
  ELSE IF ~isValidGateway(event.gateway)
  THEN ValidationError("Invalid gateway: " \o event.gateway, "{field,received}",
                       ReceiverStack, clock)
  ELSE IF event.body.kind \in {"missing", "malformed"}
  THEN ValidationError("Invalid JSON in webhook body", "{error}", ReceiverStack, clock)
  ELSE IF event.body.kind = "null" \/ ObjectKeys(event.body.payload) = {}
  THEN ValidationError("Webhook payload is empty", "{}", ReceiverStack, clock)
  ELSE NoCaught

\* createErrorResponse of the receiver
createWebhookErrorResponse(error) ==
  IF error.payment
  THEN [statusCode |-> error.statusCode, body |-> StringifyProperties(toJSON(error))]
  ELSE [statusCode |-> 500,
        body |-> StringifyProperties(
                   << <<"error", "InternalServerError">>,
                      <<"message", "An unexpected error occurred processing webhook">>,
                      <<"code", "INTERNAL_ERROR">> >>)]

\* what processWebhook returns
Accepted ==
  [statusCode |-> 202,
   body |-> << <<"message", "Webhook received and queued for processing">> >>]

\* invocation i of the handler, as far as the await of sqs.send: logger.debug
\* reads event.headers, extractAndValidateWebhook validates, queueWebhook builds
\* the message; what is thrown on the way goes to the catch, which returns
\* createErrorResponse(error)
ReceiveWebhook(i, event) ==
  /\ rpc[i] = "idle"
  /\ \A j \in Webhooks : j < i => rpc[j] # "idle"
  /\ revent' = [revent EXCEPT ![i] = event]
  /\ LET error == IF ~event.hasHeaders
                  THEN PlainError("TypeError", "Cannot read properties of undefined",
                                  ReceiverStack, Missing)
                  ELSE extractAndValidateWebhook(event, ToString(now)) IN
     IF error # NoCaught
     THEN /\ rpc' = [rpc EXCEPT ![i] = "caught"]
          /\ rcaught' = [rcaught EXCEPT ![i] = error]
          /\ rresponse' = [rresponse EXCEPT ![i] = createWebhookErrorResponse(error)]
          /\ UNCHANGED rmessage
     ELSE /\ rpc' = [rpc EXCEPT ![i] = "send"]
          /\ rmessage' = [rmessage EXCEPT ![i] =
                            [gateway |-> event.gateway, payload |-> event.body.payload,
                             receivedAt |-> ToString(now)]]
          /\ UNCHANGED <<rcaught, rresponse>>
  /\ UNCHANGED <<rsent, queue, proxyVars, workerVars, caught, responded, nrCall, nwCall>>

\* sqs.send resolves: the queue has the message, processWebhook returns 202 and
\* the handler returns it
SendMessageSucceeds(i) ==
  /\ rpc[i] = "send"
  /\ queue' = Append(queue, rmessage[i])
  /\ rsent' = [rsent EXCEPT ![i] = Len(queue) + 1]
  /\ rpc' = [rpc EXCEPT ![i] = "returned"]
  /\ rresponse' = [rresponse EXCEPT ![i] = Accepted]
  /\ UNCHANGED <<revent, rmessage, rcaught, proxyVars, workerVars, caught, responded,
                 nrCall, nwCall>>

\* a plausible slip: queueWebhook logs the failure and does not throw
SendMessageFails_Swallowed(i, failure) ==
  /\ rpc[i] = "send"
  /\ queue' = IF failure.landed THEN Append(queue, rmessage[i]) ELSE queue
  /\ rpc' = [rpc EXCEPT ![i] = "returned"]
  /\ rresponse' = [rresponse EXCEPT ![i] = Accepted]
  /\ UNCHANGED <<revent, rmessage, rcaught, rsent, proxyVars, workerVars, caught,
                 responded, nrCall, nwCall>>

\* sqs.send rejects, or getWebhookQueueUrl throws: queueWebhook throws GatewayError
\* and the catch of the handler returns createErrorResponse(error)
SendMessageFails(i, failure) ==
  /\ rpc[i] = "send"
  /\ queue' = IF failure.landed THEN Append(queue, rmessage[i]) ELSE queue
  /\ LET error == GatewayError("Failed to queue webhook for " \o rmessage[i].gateway,
                               rmessage[i].gateway, failure.message, ReceiverStack,
                               ToString(now)) IN
     /\ rcaught' = [rcaught EXCEPT ![i] = error]
     /\ rresponse' = [rresponse EXCEPT ![i] = createWebhookErrorResponse(error)]
  /\ rpc' = [rpc EXCEPT ![i] = "caught"]
  /\ UNCHANGED <<revent, rmessage, rsent, proxyVars, workerVars, caught, responded,
                 nrCall, nwCall>>

\* the receiver's invocations, while time passes
NextReceiver ==
  \/ \E i \in Webhooks, event \in WebhookEvents : ReceiveWebhook(i, event)
  \/ \E i \in Webhooks : SendMessageSucceeds(i)
  \/ \E i \in Webhooks, failure \in SendFailures : SendMessageFails(i, failure)
  \/ Tick

SpecReceiver == Init /\ [][NextReceiver]_vars

\* ------------------------------------------------------------ properties
AllKeys == {createIdempotencyKey(t[1], t[2]) : t \in TK}

Live(key) == key \in DOMAIN store /\ now <= store[key].ttl

\* r's GetCommand completes in this step
ReadCompletes(r) == pc[r] = "check" /\ pc'[r] # "check" /\ log'[r] = log[r]

\* C1: a submission of a key on which no two invocations ever overlapped,
\* whose read of the idempotency table completes while the key's record is
\* live, returns 200 with the very body the first response carried, and
\* calls no adapter.
C1_CachedBodyIdentical ==
  [][\A r \in Requests :
       (ReadCompletes(r) /\ Live(KeyOf(r)) /\ KeyOf(r) \notin raced)
         => /\ pc'[r] = "done"
            /\ result'[r] = [statusCode |-> 200, body |-> firstItem[KeyOf(r)].body]
            /\ invoked'[r] = NoInvocation]_vars

C1_Witness ==
  \E r \in Requests :
    /\ pc[r] = "done" /\ result[r].statusCode = 200 /\ KeyOf(r) \notin raced
    /\ \E q \in Requests \ {r} :
         KeyOf(q) = KeyOf(r) /\ result[q].statusCode = 201 /\ result[q].body = result[r].body

Charges(key) ==
  Cardinality({r \in Requests : KeyOf(r) = key /\ invoked[r].outcome = "success"})

\* C2: within the first TTL, for every key whose submissions never
\* overlapped, the adapters have completed at most one payment creation.
C2_AtMostOneCharge ==
  \A key \in AllKeys :
    (key \notin raced /\ now < IDEMPOTENCY_TTL_SECONDS) => Charges(key) <= 1

\* C3: while the record first written for a key has not expired, the table
\* holds that very response for the key.
C3_FirstWriterWins ==
  \A key \in DOMAIN store :
    (firstItem[key] # NoFirst /\ now <= firstItem[key].ttl)
      => store[key].response = firstItem[key].response

\* C4: when the read of r completes with no record while another invocation
\* of the same key has already read "absent" and called the adapter without
\* having written yet, r calls the adapter as well.
C4_BothInvoke ==
  [][\A r \in Requests : \A q \in Requests \ {r} :
       (/\ ReadCompletes(r)
        /\ KeyOf(r) \notin DOMAIN store
        /\ validatePaymentRequest(req[r].payload)
        /\ KeyOf(q) = KeyOf(r)
        /\ pc[q] \in {"gateway", "save"})
         => /\ pc'[r] = "gateway"
            /\ invoked'[r] = [gateway |-> req[r].gateway, outcome |-> "pending"]]_vars

C4_Witness ==
  \E r \in Requests : \E q \in Requests \ {r} :
    /\ KeyOf(q) = KeyOf(r)
    /\ invoked[r].outcome = "success" /\ invoked[q].outcome = "success"
    /\ KeyOf(r) \notin DOMAIN store

\* C5: when the read of r completes and the table holds a record for its
\* key, r returns 200 with the cached response, and the step calls no
\* adapter, changes no breaker counter and writes nothing to the table.
C5_HitHasNoSideEffects ==
  [][\A r \in Requests :
       (ReadCompletes(r) /\ KeyOf(r) \in DOMAIN store)
         => /\ pc'[r] = "done"
            /\ result'[r].statusCode = 200
            /\ result'[r].body = store[KeyOf(r)].response
            /\ invoked' = invoked
            /\ metrics' = metrics
            /\ store' = store]_vars

C5_Witness ==
  \E r \in Requests :
    /\ pc[r] = "done" /\ result[r].statusCode = 200
    /\ invoked[r] = NoInvocation /\ KeyOf(r) \in DOMAIN store

\* C6: every write of the idempotency table is the write of an invocation
\* whose adapter call succeeded and whose normalised response carries the
\* provider's transaction id, and it stores that response.
C6_PutOnlyAfterSuccess ==
  [][\A key \in DOMAIN store' :
       (key \notin DOMAIN store \/ store'[key] # store[key])
         => \E r \in Requests :
              /\ KeyOf(r) = key
              /\ pc[r] = "save" /\ pc'[r] = "done"
              /\ invoked[r].outcome = "success"
              /\ normalized[r].response.gateway_id # Undefined
              /\ store'[key].response = JSONstringify(normalized[r].response)
              /\ result'[r].statusCode = 201]_vars

C6_Witness ==
  \E r \in Requests :
    /\ result[r].statusCode = 201 /\ KeyOf(r) \in DOMAIN store
    /\ \E q \in Requests : pc[q] = "done" /\ invoked[q].outcome = "failure"

\* C7: an invocation whose read of the idempotency table failed has ended
\* with an error response and has called no adapter.
C7_GetFailureIsFatal ==
  \A r \in Requests :
    log[r] = "Failed to check idempotency"
      => /\ pc[r] = "done"
         /\ result[r] = createErrorResponse("Error")
         /\ result[r].statusCode = 500
         /\ invoked[r] = NoInvocation

C7_Witness ==
  \E r \in Requests : log[r] = "Failed to check idempotency" /\ pc[r] = "done"

\* C8: an invocation whose write of the idempotency table failed has ended
\* with an error response, whose body carries no payment.
C8_PutFailureIsFatal ==
  \A r \in Requests :
    log[r] = "Failed to save idempotency record"
      => /\ pc[r] = "done"
         /\ result[r].statusCode = 500
         /\ result[r].body = <<(<<"error", "InternalServerError">>)>>

C8_Witness ==
  \E r \in Requests :
    /\ log[r] = "Failed to save idempotency record" /\ pc[r] = "done"
    /\ invoked[r].outcome = "success"

\* C9: an invocation that selects its adapter while the breaker reports its
\* gateway open does not call that gateway's adapter.
C9_OpenBreakerReroutes ==
  [][\A r \in Requests :
       (pc[r] = "check" /\ pc'[r] # "check" /\ CircuitOpen(req[r].gateway))
         => invoked'[r].gateway # req[r].gateway]_vars

\* C10: the step in which an adapter call fails adds one to the failure
\* counter of that gateway in the current window.
C10_FailureIsRecorded ==
  [][\A r \in Requests :
       (pc[r] = "gateway" /\ invoked'[r].outcome = "failure")
         => FailuresIn(metrics', req[r].gateway, now')
              = FailuresIn(metrics, req[r].gateway, now) + 1]_vars

\* ------------------------------------------- properties: circuit breaker
\* c's recordFailure returns in this step
Returns(c) == cbpc[c] = "read" /\ cbpc'[c] = "idle"

CurrentWindow == calculateWindowKey(now)

CallsIn(gatewayName, windowKey) ==
  IF createMetricsKey(gatewayName, windowKey) \in DOMAIN calls
  THEN calls[createMetricsKey(gatewayName, windowKey)] ELSE 0

\* C11: a recordFailure call that overlapped no other call and ran within
\* one window returns false when it is call 1 .. FAILURE_THRESHOLD-1 of its
\* (gateway, window) counter and true when it is call FAILURE_THRESHOLD.
C11_OpensAtThreshold ==
  [][\A c \in Callers :
       (/\ Returns(c)
        /\ c \notin overlapped
        /\ cbwin[c] = CurrentWindow
        /\ cbnum[c] \in 1..FAILURE_THRESHOLD)
         => cbret'[c] = IF cbnum[c] = FAILURE_THRESHOLD THEN "true" ELSE "false"]_vars

C11_Witness ==
  \E c \in Callers :
    /\ cbpc[c] = "idle" /\ cbret[c] = "true"
    /\ cbnum[c] = FAILURE_THRESHOLD
    /\ c \notin overlapped /\ cbwin[c] = CurrentWindow

\* C12: recordFailure returns true exactly when the counter of the window
\* of the time of its read has reached FAILURE_THRESHOLD; while fewer than
\* FAILURE_THRESHOLD calls were begun for the gateway in that window it
\* returns false, whatever the counters of the earlier windows are.
C12_CurrentWindowOnly ==
  [][\A c \in Callers :
       Returns(c)
         => /\ (cbret'[c] = "true")
                 <=> (FailuresIn(metrics, cbgw[c], now) >= FAILURE_THRESHOLD)
            /\ CallsIn(cbgw[c], CurrentWindow) < FAILURE_THRESHOLD
                 => cbret'[c] = "false"]_vars

C12_Witness ==
  \E c \in Callers :
    /\ cbpc[c] = "idle" /\ cbret[c] = "false" /\ cbwin[c] = CurrentWindow
    /\ \E w \in 0..(CurrentWindow - 1) :
         /\ createMetricsKey(cbgw[c], w) \in DOMAIN metrics
         /\ metrics[createMetricsKey(cbgw[c], w)] >= FAILURE_THRESHOLD

\* C13: once recordFailure has returned true for a gateway in the current
\* window, the counter getFailureCount reads stays at or above
\* FAILURE_THRESHOLD, and every recordFailure of that gateway that returns
\* in the window returns true.
C13_StaysOpen ==
  [][/\ \A g \in GATEWAY_NAMES :
          <<g, calculateWindowKey(now')>> \in opened'
            => FailuresIn(metrics', g, now') >= FAILURE_THRESHOLD
     /\ \A c \in Callers :
          (Returns(c) /\ <<cbgw[c], CurrentWindow>> \in opened)
            => cbret'[c] = "true"]_vars

C13_Witness ==
  \E c \in Callers :
    /\ cbpc[c] = "idle" /\ cbret[c] = "true"
    /\ cbwin[c] = CurrentWindow
    /\ cbnum[c] > FAILURE_THRESHOLD

\* C14: no step removes a stored failure counter or makes it smaller, the
\* steps of a proxy invocation whose adapter call succeeds included.
C14_CounterNeverDecreases ==
  [][\A key \in DOMAIN metrics :
       key \in DOMAIN metrics' /\ metrics'[key] >= metrics[key]]_vars

C14_Witness ==
  /\ \E r \in Requests : invoked[r].outcome = "success" /\ result[r].statusCode = 201
  /\ \E w \in 0..(CurrentWindow - 1) :
       /\ createMetricsKey("efi", w) \in DOMAIN metrics
       /\ metrics[createMetricsKey("efi", w)] >= 1
  /\ FailuresIn(metrics, "efi", now) >= 1

\* ------------------------------------------------- properties: delivery
\* the errors the delivery contract calls retryable
Retryable(e) ==
  \/ e.code \in {"ECONNREFUSED", "ETIMEDOUT", "ECONNABORTED"}
  \/ e.status \in 500..599
  \/ e.status = 429

Calls == Len(httpLog)

\* the sleeps after failed attempts 1 .. n: 2 s, 4 s, ...
SleepsAfter(n) == [i \in 1..n |-> (2 ^ i) * 1000]

Error500 == [code |-> "ERR_BAD_RESPONSE", status |-> 500, message |-> "500"]
Error400 == [code |-> "ERR_BAD_REQUEST", status |-> 400, message |-> "400"]

\* C15: when the first k-1 HTTP calls of a delivery failed with retryable
\* errors and call k (k <= MAX_RETRIES) succeeded, the delivery has returned
\* after exactly k calls and has slept 2^i seconds after failed attempt i.
C15_RetryThenSuccess ==
  \A k \in 1..MAX_RETRIES :
    (/\ Calls >= k
     /\ httpLog[k] = Delivered
     /\ \A i \in 1..(k - 1) : httpLog[i] # Delivered /\ Retryable(httpLog[i]))
      => /\ dpc = "returned"
         /\ Calls = k
         /\ sleeps = SleepsAfter(k - 1)

C15_Witness ==
  /\ httpLog = <<Error500, Error500, Delivered>>
  /\ dpc = "returned"
  /\ sleeps = <<2000, 4000>>

\* C16: when an HTTP call of a delivery failed with a non-retryable error,
\* it is the last call, no sleep follows it, and the delivery has raised.
C16_TerminalErrorAborts ==
  \A k \in 1..Calls :
    (httpLog[k] # Delivered /\ ~Retryable(httpLog[k]))
      => /\ Calls = k
         /\ Len(sleeps) = k - 1
         /\ dpc = "raised"

C16_Witness ==
  /\ httpLog = <<Error400>>
  /\ sleeps = <<>>
  /\ dpc = "raised"

\* C17: a delivery makes at most MAX_RETRIES HTTP calls; when all
\* MAX_RETRIES calls failed with retryable errors it has raised, having
\* slept twice, 2 s and 4 s, and not after the last call.
C17_AtMostMaxRetries ==
  /\ Calls <= MAX_RETRIES
  /\ Len(sleeps) <= MAX_RETRIES - 1
  /\ (/\ Calls = MAX_RETRIES
      /\ \A i \in 1..MAX_RETRIES : httpLog[i] # Delivered /\ Retryable(httpLog[i]))
       => /\ dpc = "raised"
          /\ sleeps = <<2000, 4000>>

C17_Witness ==
  /\ Calls = MAX_RETRIES
  /\ \A i \in 1..MAX_RETRIES : httpLog[i] # Delivered /\ Retryable(httpLog[i])
  /\ dpc = "raised"

\* the axios.post of an attempt before the last one rejects in this step
EarlyFailure ==
  /\ dpc = "post" /\ attempt < MAX_RETRIES
  /\ Len(httpLog') = Len(httpLog) + 1
  /\ httpLog'[Len(httpLog')] # Delivered

\* C18: the error of a failed attempt that is not the last one is retried
\* (the delivery backs off) if and only if its code is ECONNREFUSED,
\* ETIMEDOUT or ECONNABORTED or its status is 5xx or 429; every other error
\* ends the delivery.
C18_RetryableClassification ==
  [][EarlyFailure =>
       LET e == httpLog'[Len(httpLog')] IN
       /\ Retryable(e) <=> dpc' = "sleep"
       /\ ~Retryable(e) <=> dpc' = "raised"]_vars

C18_Witness ==
  /\ Calls = 3
  /\ httpLog[1].status = 429
  /\ httpLog[2].code = "ECONNREFUSED"
  /\ httpLog[3].status = 404
  /\ dpc = "raised"

\* C19: a delivery that has raised carries the message of the error of the
\* last HTTP call made, and a delivery has returned only if its last HTTP
\* call succeeded.
C19_FailureCarriesLastError ==
  /\ dpc = "raised"
       => /\ Calls >= 1
          /\ httpLog[Calls] # Delivered
          /\ thrown.name = "Error"
          /\ thrown.cause = httpLog[Calls].message
  /\ dpc = "returned" => Calls >= 1 /\ httpLog[Calls] = Delivered
  /\ dpc \in {"idle", "post", "sleep"} => thrown = NoThrown

C19_Witness ==
  /\ dpc = "raised"
  /\ Calls = MAX_RETRIES
  /\ httpLog[1].message # httpLog[Calls].message
  /\ thrown.cause = httpLog[Calls].message

\* --------------------------------------------------- properties: handler
FailedIds == {batchItemFailures[j] : j \in 1..Len(batchItemFailures)}

\* C20: when the handler has returned, processWebhookRecord has been called
\* exactly once for every record of the batch, and batchItemFailures lists,
\* once each, exactly the message ids of the records for which it raised.
C20_BatchFailuresExact ==
  wpc = "done"
    => /\ \A i \in 1..Len(batch) : processed[i] = 1
       /\ FailedIds = {i \in 1..Len(batch) : threw[i] # None}
       /\ Len(batchItemFailures) = Cardinality(FailedIds)

C20_Witness ==
  /\ wpc = "done"
  /\ Len(batch) >= 2
  /\ threw[1] # None /\ threw[2] = None
  /\ batchItemFailures = <<1>>

\* the records of the batch whose body cannot be parsed or fails webhook validation
InvalidRecords ==
  {i \in 1..Len(batch) : \/ batch[i].kind # "json"
                         \/ ~normalizeWebhookValid(batch[i].gateway, batch[i].payload)}

\* C21: once the handler has returned, every record with an invalid payload has
\* raised a ValidationError, has had no delivery attempt, and is absent from
\* batchItemFailures, so that the queue does not redeliver it
C21_InvalidIsPermanent ==
  wpc = "done" =>
    \A i \in InvalidRecords : /\ threw[i] = "ValidationError"
                              /\ i \notin delivered
                              /\ i \notin FailedIds

\* C22: a record the handler has acknowledged, by omitting it from
\* batchItemFailures, has had a successful HTTP delivery; a valid record that
\* has not been delivered is reported as failed
C22_AcknowledgedWasDelivered ==
  wpc = "done" =>
    \A i \in (1..Len(batch)) \ InvalidRecords : i \notin FailedIds => i \in delivered

\* C23: a submission whose read of the idempotency table completes after the
\* ttl of its key's record has passed is treated as new: the check reports
\* absent, and the adapter is invoked for a valid payment
C23_ReusableAfterTtl ==
  [][\A r \in Requests :
       (/\ ReadCompletes(r)
        /\ KeyOf(r) \in DOMAIN store
        /\ now > store[KeyOf(r)].ttl
        /\ validatePaymentRequest(req[r].payload))
         => /\ pc'[r] = "gateway"
            /\ invoked'[r] = [gateway |-> req[r].gateway, outcome |-> "pending"]]_vars

\* C24: an invocation whose request fails validation never reads or writes the
\* idempotency table and never calls an adapter: every invocation that has a
\* GetCommand, an adapter call or a PutCommand under way carries a valid
\* payment payload
C24_InvalidTouchesNothing ==
  \A r \in Requests :
    pc[r] \in {"check", "gateway", "save"} => validatePaymentRequest(req[r].payload)

\* the catches that have happened
Caught == {i \in Catches : caught[i] # NoCaught}

\* the status the spec assigns to an error by its kind
StatusOfKind(error) ==
  IF ~error.payment THEN 500
  ELSE CASE error.name = "ValidationError" -> 400
         [] error.name = "AuthenticationError" -> 401
         [] error.name = "IdempotencyError" -> 409
         [] error.name \in {"GatewayError", "TimeoutError"} -> 502
         [] error.name = "CircuitBreakerError" -> 503

\* C25: the status of every error response is the one of the error's kind:
\* ValidationError 400, AuthenticationError 401, IdempotencyError 409,
\* GatewayError and TimeoutError 502, CircuitBreakerError 503, and 500 for
\* every error that is not a PaymentError
C25_StatusByKind ==
  \A i \in Caught : responded[i].statusCode = StatusOfKind(caught[i])

C25_Witness ==
  /\ Caught = Catches
  /\ caught[1].name = "CircuitBreakerError" /\ responded[1].statusCode = 503
  /\ ~caught[2].payment /\ caught[2].statusCode = 400 /\ responded[2].statusCode = 500

\* the names of the properties of a body
Fields(body) == {body[k][1] : k \in 1..Len(body)}

\* the values of the properties of a body
Values(body) == {body[k][2] : k \in 1..Len(body)}

\* the public fields a class declares in its toJSON
PublicFields(error) ==
  {"error", "message", "code", "timestamp"} \cup
  CASE error.name = "ValidationError" -> {"details"}
    [] error.name \in {"GatewayError", "TimeoutError", "CircuitBreakerError"} ->
         {"gateway", "retryable"}
    [] OTHER -> {}

\* C26: any two errors that are not PaymentErrors get the same body, whatever
\* their names, messages and stacks; the body of a PaymentError has only its
\* name, message, code, timestamp and the public fields of its class, each
\* with the value of that property, and neither a stack nor originalError
C26_NoInternalDetail ==
  /\ \A i, j \in Caught :
       (~caught[i].payment /\ ~caught[j].payment) => responded[i].body = responded[j].body
  /\ \A i \in Caught :
       /\ caught[i].stack \notin Values(responded[i].body)
       /\ Fields(responded[i].body) \cap {"stack", "originalError", "cachedResponse"} = {}
       /\ caught[i].payment =>
            /\ Fields(responded[i].body) \subseteq PublicFields(caught[i])
            /\ <<"error", caught[i].name>> = responded[i].body[1]
            /\ <<"message", caught[i].message>> = responded[i].body[2]
            /\ <<"code", caught[i].code>> = responded[i].body[3]
            /\ <<"timestamp", caught[i].timestamp>> = responded[i].body[4]

C26_Witness ==
  /\ Caught = Catches
  /\ ~caught[1].payment /\ ~caught[2].payment
  /\ caught[1].name # caught[2].name
  /\ caught[1].message # caught[2].message
  /\ caught[1].stack # caught[2].stack
  /\ responded[1].body = responded[2].body

\* C27: a call of either normalizer with a gateway name that is not a known one
\* throws ValidationError and returns nothing, whatever the payload
C27_UnknownGatewayRejected ==
  /\ (nrCall # NoResponseCall /\ nrCall.gateway \notin GATEWAY_NAMES)
       => nrCall.threw = "ValidationError" /\ nrCall.output = <<>>
  /\ (nwCall # NoWebhookCall /\ nwCall.gateway \notin GATEWAY_NAMES)
       => nwCall.threw = "ValidationError" /\ nwCall.output = NoNotification

C27_Witness ==
  /\ nrCall.gateway = "paypal" /\ validateStripeResponse(nrCall.response)
  /\ nrCall.threw = "ValidationError"
  /\ nwCall.gateway = "EFI" /\ validateEFIPayload(nwCall.payload)
  /\ nwCall.threw = "ValidationError"

\* the payload lacks a field the spec requires of its provider's webhooks
LacksRequiredField(gateway, payload) ==
  CASE gateway = "efi" ->
         \/ ~payload.hasPix
         \/ Len(payload.pix) = 0
         \/ payload.pix[1].txid = Undefined
         \/ payload.pix[1].valor = NoAmount
    [] gateway = "stripe" ->
         \/ payload.type = Undefined
         \/ ~payload.hasObject
         \/ payload.object.id = Undefined

CanonicalStatuses ==
  {"pending", "processing", "authorized", "completed", "canceled", "unknown"}

\* the table of the spec for the status of a Stripe object
StripeStatusTable(status) ==
  CASE status = "succeeded" -> "completed"
    [] status = "processing" -> "processing"
    [] status = "requires_capture" -> "authorized"
    [] status = "canceled" -> "canceled"
    [] status \in {"requires_action", "requires_confirmation",
                   "requires_payment_method"} -> "pending"
    [] OTHER -> "unknown"

LacksTransactionId(gateway, response) ==
  CASE gateway = "efi" -> response.txid = Undefined /\ response.id = Undefined
    [] gateway = "stripe" -> response.id = Undefined

\* C30: a call of the response normalizer for a known gateway with a result
\* that has no transaction id throws ValidationError and returns nothing; and
\* an invocation whose adapter returned such a result ends at once with the
\* ValidationError response, with no normalized response and no write of the
\* idempotency table
C30_NoTransactionIdRejected ==
  [][/\ (nrCall'.gateway \in GATEWAY_NAMES
           /\ LacksTransactionId(nrCall'.gateway, nrCall'.response))
          => nrCall'.threw = "ValidationError" /\ nrCall'.output = <<>>
     /\ \A r \in Requests :
          (pc[r] = "gateway" /\ invoked'[r].outcome = "malformed")
            => /\ pc'[r] = "done"
               /\ result'[r] = createErrorResponse("ValidationError")
               /\ normalized'[r] = NoNormalized
               /\ store' = store]_vars

C30_Witness ==
  /\ nrCall.gateway = "stripe" /\ nrCall.response.id = Undefined
  /\ nrCall.threw = "ValidationError"
  /\ \E r \in Requests :
       /\ pc[r] = "done" /\ invoked[r].outcome = "malformed"
       /\ result[r].statusCode = 400 /\ store = <<>>

\* C31: a call of the webhook normalizer with the gateway and the payload of
\* the call before it returns the same notification (or throws as it did),
\* whatever the time of either call
C31_WebhookNormalizerPure ==
  [][(/\ nwCall # NoWebhookCall
      /\ nwCall'.gateway = nwCall.gateway
      /\ nwCall'.payload = nwCall.payload)
       => /\ nwCall'.output = nwCall.output
          /\ nwCall'.threw = nwCall.threw]_vars

\* C32: a cached response an invocation returns was produced by an invocation
\* of the same tenant and idempotency key, and a write of the record of
\* (tenant, key) leaves what a read finds for every other pair as it was
C32_TenantIsolation ==
  [][/\ \A r \in Requests :
          (pc'[r] = "done" /\ result'[r].statusCode = 200)
            => \E q \in Requests :
                 /\ result'[r].body[1] = <<"id", generateOrchestrationId(q)>>
                 /\ req'[q].tenantId = req'[r].tenantId
                 /\ req'[q].idempotencyKey = req'[r].idempotencyKey
     /\ \A r \in Requests :
          (pc[r] = "save" /\ pc'[r] = "done")
            => \A tk \in TK \ {<<req[r].tenantId, req[r].idempotencyKey>>} :
                 CachedResponse(store', createIdempotencyKey(tk[1], tk[2]))
                   = CachedResponse(store, createIdempotencyKey(tk[1], tk[2]))]_vars

C32_Witness ==
  \E r, q \in Requests :
    /\ req[r].tenantId # req[q].tenantId
    /\ req[r].idempotencyKey = req[q].idempotencyKey
    /\ pc[r] = "done" /\ result[r].statusCode = 201
    /\ pc[q] = "done" /\ result[q].statusCode = 201
    /\ result[r].body # result[q].body
    /\ {KeyOf(r), KeyOf(q)} \subseteq DOMAIN store

\* C33: the count a recordFailure call compares with the threshold is the
\* counter of the window whose counter that call incremented, also when a
\* window boundary lies between its increment and its read
C33_ReadsIncrementedWindow ==
  [][\A c \in Callers :
       (cbpc[c] = "read" /\ cbpc'[c] = "idle")
         => (cbret'[c] = "true"
               <=> metrics[createMetricsKey(cbgw[c], cbwin[c])] >= FAILURE_THRESHOLD)]_vars

\* the recordFailure calls that have their UpdateCommand behind them and
\* their read ahead
Reading(gatewayName, windowKey) ==
  {c \in Racers : cbpc[c] = "read" /\ cbgw[c] = gatewayName /\ cbwin[c] = windowKey}

\* C34: whatever the interleaving of the recordFailure calls, every stored
\* counter equals the number of increments performed on it
C34_NoLostIncrement ==
  /\ DOMAIN metrics = DOMAIN calls
  /\ \A key \in DOMAIN metrics : metrics[key] = calls[key]

C34_Witness ==
  \E g \in GATEWAY_NAMES :
    /\ Cardinality(Reading(g, CurrentWindow)) >= 2
    /\ FailuresIn(metrics, g, now) >= 3

\* C35: when FAILURE_THRESHOLD recordFailure calls for a gateway have begun
\* and returned within the current window, one of them has returned true
C35_OpeningNotMissed ==
  \A g \in GATEWAY_NAMES :
    CallsIn(g, CurrentWindow) - Cardinality(Reading(g, CurrentWindow)) >= FAILURE_THRESHOLD
      => <<g, CurrentWindow>> \in opened

C35_Witness ==
  \E g \in GATEWAY_NAMES, c, d \in Racers :
    /\ c # d /\ {c, d} \subseteq overlapped
    /\ cbpc[c] = "idle" /\ cbpc[d] = "idle"
    /\ cbgw[c] = g /\ cbgw[d] = g
    /\ cbwin[c] = CurrentWindow /\ cbwin[d] = CurrentWindow
    /\ cbnum[c] = FAILURE_THRESHOLD - 1 /\ cbret[c] = "true"
    /\ cbnum[d] = FAILURE_THRESHOLD /\ cbret[d] = "true"

\* the windows the clock can reach
Windows == 0..MaxTicks

\* C36: the step in which a recordFailure call of gateway P increments leaves
\* the counter of every other gateway and of every other window as it was,
\* and does not change whether the breaker of another gateway is open; its
\* read changes no counter
C36_OnlyOwnCounter ==
  [][\A c \in Racers :
       /\ (cbpc[c] = "idle" /\ cbpc'[c] = "read")
            => /\ \A q \in GATEWAY_NAMES, w \in Windows :
                    (q # cbgw'[c] \/ w # CurrentWindow)
                      => FailuresIn(metrics', q, w * MONITOR_WINDOW_SECONDS)
                           = FailuresIn(metrics, q, w * MONITOR_WINDOW_SECONDS)
               /\ FailuresIn(metrics', cbgw'[c], now) = FailuresIn(metrics, cbgw'[c], now) + 1
               /\ \A q \in GATEWAY_NAMES \ {cbgw'[c]} : CircuitOpen(q)' <=> CircuitOpen(q)
       /\ (cbpc[c] = "read" /\ cbpc'[c] = "idle") => metrics' = metrics]_vars

C36_Witness ==
  /\ CircuitOpen("efi")
  /\ FailuresIn(metrics, "stripe", now) = 1
  /\ ~CircuitOpen("stripe")
  /\ \E w \in Windows \ {CurrentWindow} :
       createMetricsKey("efi", w) \notin DOMAIN metrics

\* the valid records of the batch for which the resolver returns no URL
Unresolved ==
  {i \in (1..Len(batch)) \ InvalidRecords :
     getClientCallbackUrl(batch[i].gateway, batch[i].payload) = NoUrl}

\* C37: a valid record for which the resolver returns no URL, once it has been
\* processed, has raised nothing, has had no HTTP call made for it, and is
\* not listed in batchItemFailures
C37_NoUrlIsAcknowledged ==
  \A i \in Unresolved :
    processed[i] > 0
      => /\ threw[i] = None
         /\ i \notin FailedIds
         /\ i \notin delivered
         /\ httpLog = <<>> /\ dpc = "idle"

C37_Witness ==
  /\ wpc = "done"
  /\ \E i \in Unresolved :
       /\ extractClientIdFromPayload(batch[i].gateway, batch[i].payload) # Undefined
       /\ processed[i] = 1 /\ i \notin FailedIds
  /\ \E i \in Unresolved :
       extractClientIdFromPayload(batch[i].gateway, batch[i].payload) = Undefined

\* C38: every delivery that has begun ends, by returning or by raising, and
\* has then made at most 3 HTTP calls and slept at most twice
C38_DeliveryTerminates ==
  (dpc \in {"post", "sleep"})
    ~> (/\ dpc \in {"returned", "raised"}
        /\ Len(httpLog) <= 3
        /\ Len(sleeps) <= 2)

C38_Witness ==
  /\ dpc = "raised"
  /\ Len(httpLog) = 2 /\ Len(sleeps) = 1
  /\ Retryable(httpLog[1]) /\ ~Retryable(httpLog[2])

\* ------------------------------------------------- properties: receiver
\* the events the receiver's validation rejects: no gateway or an unknown one,
\* no body or one that is not JSON, a payload that is null or has no field
ValidationFails(event) ==
  \/ event.gateway \notin GATEWAY_NAMES
  \/ event.body.kind # "json"
  \/ event.body.payload = NoWebhookPayload

Returned(i) == rpc[i] \in {"returned", "caught"}

\* C39: an invocation of the receiver answers 202 only when sqs.send has
\* resolved for its message {gateway, payload, receivedAt}, which is then in the
\* queue; an invocation whose event fails validation sends nothing, and one
\* that returns without a resolved send, validation or enqueueing having failed,
\* answers with an error response and not with 202.
C39_AcceptedOnlyAfterEnqueue ==
  \A i \in Webhooks :
    /\ rresponse[i].statusCode = 202
         => /\ rsent[i] \in 1..Len(queue)
            /\ queue[rsent[i]] = [gateway |-> revent[i].gateway,
                                  payload |-> revent[i].body.payload,
                                  receivedAt |-> rmessage[i].receivedAt]
    /\ (rpc[i] # "idle" /\ ValidationFails(revent[i]))
         => /\ rpc[i] = "caught"
            /\ rsent[i] = 0
            /\ rmessage[i] = NoMessage
    /\ (Returned(i) /\ rsent[i] = 0)
         => /\ rresponse[i].statusCode \in 400..599
            /\ rresponse[i].body[1][1] = "error"

C39_Witness ==
  \E i, j \in Webhooks :
    /\ rresponse[i] = Accepted /\ queue[rsent[i]] = rmessage[i]
    /\ rpc[j] = "caught" /\ rcaught[j].name = "GatewayError"
    /\ rresponse[j].statusCode = 502 /\ rsent[j] = 0
    /\ rmessage[j] \notin {queue[n] : n \in 1..Len(queue)}

====
